---- MODULE Spec2Model ----
(***************************************************************************)
(* A model of the chatbot's core: the conversation context                 *)
(* (models/context.py), the persistence gateway (core/persistence.py),     *)
(* the agent manager (core/agent_manager.py), the command loop (main.py)   *)
(* and the tool registry (core/tool_registry.py).                          *)
(*                                                                         *)
(* Spec          sessions taking turns against the PostgreSQL store        *)
(* SpecRegistry  register / discover / list on the tool registry           *)
(* SpecOutage    one process run with the store failing, and interrupts    *)
(* SpecActivity  update_activity alone on one context                      *)
(* SpecListing   the registry and a caller changing what list gave it      *)
(* SpecBoot      the registry and the agents the managers build            *)
(* SpecCli       the command loop reading lines, one process run           *)
(* SpecConcurrent two sessions of different users, statements interleaved  *)
(* SpecTools     calculate and convert_units called on one context         *)
(* SpecTasks     manage_task called on one context                         *)
(***************************************************************************)
EXTENDS Integers, Sequences, FiniteSets, TLC

VARIABLES
  user_contexts,   \* table user_contexts: a set of rows
  chat_history,    \* table chat_history: a set of rows
  chat_seq,        \* the SERIAL sequence behind chat_history.id
  now,             \* the wall clock, read by datetime.now() and CURRENT_TIMESTAMP
  session,         \* per process: the AgentManager and where main() stands
  faults,          \* gateway calls that have failed so far (bounded by MaxFaults)
  turns,           \* chat calls made so far (bounded by MaxTurns)
  appended,        \* history: per user_id, the appends that were committed, in order
  saved,           \* history: per user_id, the context of the last committed save_context
  dirty,           \* history: per process, the extension keys a failed turn left
                   \* changed in memory, and whether its latest turn fell back
  last,            \* history: what the most recent operation did and returned
  tools,           \* ToolRegistry.tools: name -> handle, in insertion order
  tool_metadata,   \* ToolRegistry.tool_metadata: name -> metadata, in insertion order
  registered,      \* history: every register_tool call made, in order
  discovers,       \* auto_discover_tools calls made so far (bounded by MaxDiscover)
  found_calls,     \* history: the register_tool calls that discovery made
  reg_last,        \* history: what the most recent registry operation did
  agent_tools      \* per Agent instance: the handles bound by agent.tool, in order

store_vars   == <<user_contexts, chat_history, chat_seq>>
session_vars == <<now, session, faults, turns, appended, saved, dirty, last>>
registry_vars == <<tools, tool_metadata, registered, discovers, found_calls, reg_last,
                   agent_tools>>
vars == <<user_contexts, chat_history, chat_seq, now, session, faults, turns,
          appended, saved, dirty, last, tools, tool_metadata, registered, discovers,
          found_calls, reg_last, agent_tools>>

----------------------------------------------------------------------------
(* Bounds of the model *)

MaxTurns == 2      \* chat calls over all sessions
MaxFaults == 1     \* failing gateway calls over all sessions
MaxLimit == 3      \* largest limit asked of load_chat_history in the checks
MaxRegister == 2   \* direct register_tool calls
MaxDiscover == 1   \* auto_discover_tools calls
MaxOutage == 3     \* failing gateway calls of the one process run of SpecOutage
MaxCalls == 3      \* update_activity calls on one context in SpecActivity
MaxTick == 2       \* how far the clock moves between two reads in SpecActivity
MaxCount == 2      \* largest message_count a context of SpecActivity starts with
MaxToolCalls == 3  \* calls of calculate and convert_units in SpecTools
MaxTaskCalls == 4  \* calls of manage_task in SpecTasks
MaxBindings == 5   \* attach is not called on an Agent holding this many bindings

Procs == {"p1", "p2"}          \* process runs of main()
Users == {"u1", "u2"}          \* values of CHATBOT_USER_ID
Msgs  == <<"hi", "bye">>        \* what the user types, turn after turn
Names == {"ana"}               \* what save_user_name is given
Agents == {"a1", "a2"}         \* Agent instances, one per AgentManager

None == [none |-> TRUE]
Fallback == "Desculpe, ocorreu um erro. Tente novamente."

----------------------------------------------------------------------------
(* Python values held in the context, and the JSON documents they become *)

PyStr(s)      == [ty |-> "str", s |-> s]
PyInt(n)      == [ty |-> "int", n |-> n]
PyBool(b)     == [ty |-> "bool", b |-> b]
PyDatetime(t) == [ty |-> "datetime", t |-> t]
PySet         == [ty |-> "set"]                 \* a value json cannot encode
PyDict(d)     == [ty |-> "dict", d |-> d]
PyText(doc)   == [ty |-> "text", doc |-> doc]   \* a str holding a JSON text
PyList(l)     == [ty |-> "list", l |-> l]

JStr(s)   == [j |-> "string", s |-> s]
JNum(n)   == [j |-> "number", n |-> n]
JBool(b)  == [j |-> "bool", b |-> b]
JObj(o)   == [j |-> "object", o |-> o]
JText(doc) == [j |-> "string", doc |-> doc]     \* a JSON string scalar holding a JSON text
JArr(a)   == [j |-> "array", a |-> a]
JNull     == [j |-> "null"]

IsStr(v) == v.ty \in {"str", "text"}

\* datetime.isoformat(), and pydantic's parse of such a string
IsoFormat(t) == "T" \o ToString(t)
Horizon == 8 * (MaxTurns + Cardinality(Procs) + 2)
IsoTable == [t \in 0..Horizon |-> IsoFormat(t)]
IsIso(s) == \E t \in 0..Horizon : IsoTable[t] = s
ParseIso(s) == CHOOSE t \in 0..Horizon : IsoTable[t] = s

RECURSIVE Serializable(_)
Serializable(v) ==
  CASE v.ty \in {"str", "text", "int", "bool"} -> TRUE
    [] v.ty = "datetime" -> TRUE
    [] v.ty = "dict" -> \A k \in DOMAIN v.d : Serializable(v.d[k])
    [] v.ty = "list" -> \A i \in DOMAIN v.l : Serializable(v.l[i])
    [] v.ty = "none" -> TRUE
    [] OTHER -> FALSE

RECURSIVE ToJson(_)
ToJson(v) ==
  CASE v.ty = "str" -> JStr(v.s)
    [] v.ty = "text" -> JText(v.doc)
    [] v.ty = "int" -> JNum(v.n)
    [] v.ty = "bool" -> JBool(v.b)
    [] v.ty = "datetime" -> JStr(IsoFormat(v.t))
    [] v.ty = "dict" -> JObj([k \in DOMAIN v.d |-> ToJson(v.d[k])])
    [] v.ty = "list" -> JArr([i \in DOMAIN v.l |-> ToJson(v.l[i])])
    [] v.ty = "none" -> JNull

RECURSIVE FromJson(_)
FromJson(doc) ==
  CASE doc.j = "string" -> IF "doc" \in DOMAIN doc THEN PyText(doc.doc) ELSE PyStr(doc.s)
    [] doc.j = "number" -> PyInt(doc.n)
    [] doc.j = "bool" -> PyBool(doc.b)
    [] doc.j = "object" -> PyDict([k \in DOMAIN doc.o |-> FromJson(doc.o[k])])
    [] doc.j = "array" -> PyList([i \in DOMAIN doc.a |-> FromJson(doc.a[i])])
    [] doc.j = "null" -> [ty |-> "none"]

\* json.dumps(obj, cls=DateTimeEncoder): a str holding the JSON text, or TypeError
json_dumps(v) ==
  IF Serializable(v) THEN [raised |-> FALSE, value |-> PyText(ToJson(v))]
  ELSE [raised |-> TRUE]

\* json.loads(s): the value the text denotes, or JSONDecodeError
json_loads(v) ==
  IF v.ty = "text" THEN [raised |-> FALSE, value |-> FromJson(v.doc)]
  ELSE [raised |-> TRUE]

\* psycopg2.extras.Json(x): the adapter encodes x once more on the way in
Json(v) == ToJson(v)

----------------------------------------------------------------------------
(* models/context.py *)

DefaultPreferences ==
  [language |-> "pt-BR", timezone |-> "America/Sao_Paulo",
   notification_enabled |-> TRUE,
   preferred_units |-> [temperature |-> "celsius", distance |-> "km", weight |-> "kg"]]

\* SessionData with last_activity declared, and so defaulted, before start_time
SessionData_activity_first(t) ==
  [session_id |-> ToString(t), start_time |-> t + 2,
   message_count |-> 0, last_activity |-> t + 1]

\* SessionData(): three calls of datetime.now(), in field order
SessionData(t) ==
  [session_id |-> ToString(t), start_time |-> t + 1,
   message_count |-> 0, last_activity |-> t + 2]

EmptyDict == [k \in {} |-> None]

\* ConversationContext(user_id=user_id)
ConversationContext(user_id, t) ==
  [user_id |-> user_id, user_preferences |-> DefaultPreferences,
   session_data |-> SessionData(t), custom_data |-> EmptyDict]

\* update_activity that also restarts the session clock
update_activity_restart(ctx, t) ==
  [ctx EXCEPT !.session_data.last_activity = t,
              !.session_data.start_time = t,
              !.session_data.message_count = @ + 1]

\* update_activity without its second statement
update_activity_keeps_count(ctx, t) ==
  [ctx EXCEPT !.session_data.last_activity = t]

update_activity(ctx, t) ==
  [ctx EXCEPT !.session_data.last_activity = t,
              !.session_data.message_count = @ + 1]

DictSet(d, k, v) == [x \in DOMAIN d \cup {k} |-> IF x = k THEN v ELSE d[x]]

set_user_data(ctx, key, value) ==
  [ctx EXCEPT !.custom_data = DictSet(@, key, value)]

get_user_data(ctx, key, default) ==
  IF key \in DOMAIN ctx.custom_data THEN ctx.custom_data[key] ELSE default

\* model_dump() of the two sub-models, as Python dicts
DumpPreferences(p) ==
  PyDict([language |-> PyStr(p.language), timezone |-> PyStr(p.timezone),
          notification_enabled |-> PyBool(p.notification_enabled),
          preferred_units |->
            PyDict([k \in DOMAIN p.preferred_units |-> PyStr(p.preferred_units[k])])])

DumpSessionData(s) ==
  PyDict([session_id |-> PyStr(s.session_id), start_time |-> PyDatetime(s.start_time),
          message_count |-> PyInt(s.message_count),
          last_activity |-> PyDatetime(s.last_activity)])

----------------------------------------------------------------------------
(* core/persistence.py.  db is the store: [user_contexts, chat_history,    *)
(* chat_seq].  fault says that this call's connection or statement fails   *)
(* (get_db_connection raises, or the server rejects the statement).        *)

Store(uc, ch, seq) == [user_contexts |-> uc, chat_history |-> ch, chat_seq |-> seq]

ContextRows(db, user_id) == {r \in db.user_contexts : r.user_id = user_id}
HistoryRows(db, user_id) == {r \in db.chat_history : r.user_id = user_id}

\* an INSERT with no conflict clause on a table with no primary key
Upsert_keep_old(rows, row) == rows \cup {row}

\* an UPDATE of user_contexts with no WHERE clause, then the insert
Upsert_every_row(rows, row) == {row}

\* INSERT ... ON CONFLICT (user_id) DO UPDATE SET <every column>
Upsert(rows, row) == {r \in rows : r.user_id # row.user_id} \cup {row}

\* save_context with ON CONFLICT (user_id) DO NOTHING: an existing row is kept
save_context_insert_only(db, user_id, context, fault, t) ==
  LET custom_data_json == json_dumps(PyDict(context.custom_data))
      unchanged == [db |-> db, context |-> context, raised |-> FALSE, committed |-> FALSE]
  IN IF fault \/ custom_data_json.raised THEN unchanged
     ELSE [db |-> [db EXCEPT !.user_contexts =
                     IF ContextRows(db, user_id) # {} THEN @
                     ELSE @ \cup {[user_id |-> user_id,
                                   user_preferences |->
                                     Json(json_dumps(DumpPreferences(context.user_preferences)).value),
                                   session_data |->
                                     Json(json_dumps(DumpSessionData(context.session_data)).value),
                                   custom_data |-> Json(custom_data_json.value),
                                   last_updated |-> t]}],
           context |-> context, raised |-> FALSE, committed |-> TRUE]

\* save_context with its except clause re-raising
save_context_reraise(db, user_id, context, fault, t) ==
  IF fault \/ json_dumps(PyDict(context.custom_data)).raised
  THEN [db |-> db, context |-> context, raised |-> TRUE, committed |-> FALSE]
  ELSE [db |-> [db EXCEPT !.user_contexts =
                  Upsert(@, [user_id |-> user_id,
                             user_preferences |->
                               Json(json_dumps(DumpPreferences(context.user_preferences)).value),
                             session_data |->
                               Json(json_dumps(DumpSessionData(context.session_data)).value),
                             custom_data |->
                               Json(json_dumps(PyDict(context.custom_data)).value),
                             last_updated |-> t])],
        context |-> context, raised |-> FALSE, committed |-> TRUE]

\* save_context writing the record as DELETE then INSERT: the delete cascades to
\* the chat_history rows of the user
save_context_delete_insert(db, user_id, context, fault, t) ==
  IF fault \/ json_dumps(PyDict(context.custom_data)).raised
  THEN [db |-> db, context |-> context, raised |-> FALSE, committed |-> FALSE]
  ELSE [db |-> [db EXCEPT !.user_contexts =
                  Upsert(@, [user_id |-> user_id,
                             user_preferences |->
                               Json(json_dumps(DumpPreferences(context.user_preferences)).value),
                             session_data |->
                               Json(json_dumps(DumpSessionData(context.session_data)).value),
                             custom_data |->
                               Json(json_dumps(PyDict(context.custom_data)).value),
                             last_updated |-> t]),
                          !.chat_history = {r \in @ : r.user_id # user_id}],
        context |-> context, raised |-> FALSE, committed |-> TRUE]

save_context(db, user_id, context, fault, t) ==
  LET user_preferences_json == json_dumps(DumpPreferences(context.user_preferences))
      session_data_json == json_dumps(DumpSessionData(context.session_data))
      custom_data_json == json_dumps(PyDict(context.custom_data))
      unchanged == [db |-> db, context |-> context, raised |-> FALSE, committed |-> FALSE]
  IN IF fault THEN unchanged
     ELSE IF user_preferences_json.raised \/ session_data_json.raised
             \/ custom_data_json.raised THEN unchanged
     ELSE [db |-> [db EXCEPT !.user_contexts =
                     Upsert(@, [user_id |-> user_id,
                                user_preferences |-> Json(user_preferences_json.value),
                                session_data |-> Json(session_data_json.value),
                                custom_data |-> Json(custom_data_json.value),
                                last_updated |-> t])],
           context |-> context, raised |-> FALSE, committed |-> TRUE]

\* a jsonb column as psycopg2 hands it over, then "if isinstance(x, str): json.loads"
Column(doc) ==
  LET x == FromJson(doc)
  IN IF IsStr(x) THEN json_loads(x) ELSE [raised |-> FALSE, value |-> x]

\* UserPreferences(**data): pydantic validates every field
ValidPreferences(v) ==
  /\ v.ty = "dict"
  /\ DOMAIN v.d \subseteq {"language", "timezone", "notification_enabled", "preferred_units"}
  /\ \A k \in DOMAIN v.d \cap {"language", "timezone"} : v.d[k].ty = "str"
  /\ "notification_enabled" \in DOMAIN v.d => v.d["notification_enabled"].ty = "bool"
  /\ "preferred_units" \in DOMAIN v.d =>
       /\ v.d["preferred_units"].ty = "dict"
       /\ \A k \in DOMAIN v.d["preferred_units"].d : v.d["preferred_units"].d[k].ty = "str"

UserPreferences(v) ==
  LET Get(k) == IF k \in DOMAIN v.d THEN v.d[k] ELSE None
  IN [language |-> IF "language" \in DOMAIN v.d THEN Get("language").s
                   ELSE DefaultPreferences.language,
      timezone |-> IF "timezone" \in DOMAIN v.d THEN Get("timezone").s
                   ELSE DefaultPreferences.timezone,
      notification_enabled |->
        IF "notification_enabled" \in DOMAIN v.d THEN Get("notification_enabled").b
        ELSE DefaultPreferences.notification_enabled,
      preferred_units |->
        IF "preferred_units" \in DOMAIN v.d
        THEN [k \in DOMAIN Get("preferred_units").d |-> Get("preferred_units").d[k].s]
        ELSE DefaultPreferences.preferred_units]

\* SessionData(**data): the timestamps come back as ISO strings and are parsed
ValidSessionData(v) ==
  /\ v.ty = "dict"
  /\ DOMAIN v.d = {"session_id", "start_time", "message_count", "last_activity"}
  /\ v.d["session_id"].ty = "str"
  /\ v.d["message_count"].ty = "int"
  /\ \A k \in {"start_time", "last_activity"} : v.d[k].ty = "str" /\ IsIso(v.d[k].s)

LoadSessionData(v) ==
  [session_id |-> v.d["session_id"].s, start_time |-> ParseIso(v.d["start_time"].s),
   message_count |-> v.d["message_count"].n,
   last_activity |-> ParseIso(v.d["last_activity"].s)]

\* load_context without its except clause: a connection error leaves it
load_context_raising(db, user_id, fault, t) ==
  IF fault
  THEN [db |-> db, context |-> ConversationContext(user_id, t), raised |-> TRUE,
        found |-> FALSE]
  ELSE IF ContextRows(db, user_id) = {}
  THEN [db |-> db, context |-> ConversationContext(user_id, t), raised |-> FALSE,
        found |-> FALSE]
  ELSE LET record == CHOOSE r \in ContextRows(db, user_id) : TRUE
       IN [db |-> db,
           context |-> [user_id |-> user_id,
                        user_preferences |->
                          UserPreferences(Column(record.user_preferences).value),
                        session_data |-> LoadSessionData(Column(record.session_data).value),
                        custom_data |-> Column(record.custom_data).value.d],
           raised |-> FALSE, found |-> TRUE]

load_context(db, user_id, fault, t) ==
  LET fresh == [db |-> db, context |-> ConversationContext(user_id, t),
                raised |-> FALSE, found |-> FALSE]
  IN IF fault \/ ContextRows(db, user_id) = {} THEN fresh
     ELSE LET record == CHOOSE r \in ContextRows(db, user_id) : TRUE
              user_preferences_data == Column(record.user_preferences)
              session_data_data == Column(record.session_data)
              custom_data == Column(record.custom_data)
          IN IF \/ user_preferences_data.raised \/ session_data_data.raised
                \/ custom_data.raised THEN fresh
             ELSE IF \/ ~ValidPreferences(user_preferences_data.value)
                     \/ ~ValidSessionData(session_data_data.value)
                     \/ custom_data.value.ty # "dict" THEN fresh
             ELSE [db |-> db,
                   context |-> [user_id |-> user_id,
                                user_preferences |-> UserPreferences(user_preferences_data.value),
                                session_data |-> LoadSessionData(session_data_data.value),
                                custom_data |-> custom_data.value.d],
                   raised |-> FALSE, found |-> TRUE]

\* save_chat_message with its except clause re-raising
save_chat_message_raising(db, user_id, message, sender, fault, t) ==
  IF fault THEN [db |-> db, raised |-> TRUE, committed |-> FALSE]
  ELSE IF ContextRows(db, user_id) = {}
  THEN [db |-> [db EXCEPT !.chat_seq = @ + 1], raised |-> TRUE, committed |-> FALSE]
  ELSE [db |-> [db EXCEPT !.chat_seq = @ + 1,
                          !.chat_history = @ \cup {[id |-> db.chat_seq, user_id |-> user_id,
                                                    message_text |-> message, sender |-> sender,
                                                    timestamp |-> t]}],
        raised |-> FALSE, committed |-> TRUE]

\* chat_history.user_id REFERENCES user_contexts(user_id): the insert of a row
\* whose user has no context row is rejected; nextval of the id is spent all the same
save_chat_message(db, user_id, message, sender, fault, t) ==
  IF fault THEN [db |-> db, raised |-> FALSE, committed |-> FALSE]
  ELSE IF ContextRows(db, user_id) = {}
  THEN [db |-> [db EXCEPT !.chat_seq = @ + 1], raised |-> FALSE, committed |-> FALSE]
  ELSE [db |-> [db EXCEPT !.chat_seq = @ + 1,
                          !.chat_history = @ \cup {[id |-> db.chat_seq, user_id |-> user_id,
                                                    message_text |-> message, sender |-> sender,
                                                    timestamp |-> t]}],
        raised |-> FALSE, committed |-> TRUE]

\* ORDER BY timestamp DESC
RECURSIVE OrderByTimestampDesc(_)
OrderByTimestampDesc(rows) ==
  IF rows = {} THEN <<>>
  ELSE LET first == CHOOSE r \in rows : \A q \in rows : q.timestamp <= r.timestamp
       IN <<first>> \o OrderByTimestampDesc(rows \ {first})

Limit(seq, n) == SubSeq(seq, 1, IF n < Len(seq) THEN n ELSE Len(seq))
Reversed(seq) == [i \in 1..Len(seq) |-> seq[Len(seq) + 1 - i]]

\* load_chat_history returning the rows as fetched, newest first
load_chat_history_unreversed(db, user_id, limit, fault) ==
  IF fault THEN [history |-> <<>>, raised |-> FALSE]
  ELSE LET messages == Limit(OrderByTimestampDesc(HistoryRows(db, user_id)), limit)
       IN [history |-> [i \in 1..Len(messages) |->
                          [sender |-> messages[i].sender,
                           message_text |-> messages[i].message_text]],
           raised |-> FALSE]

load_chat_history(db, user_id, limit, fault) ==
  IF fault THEN [history |-> <<>>, raised |-> FALSE]
  ELSE LET messages == Limit(OrderByTimestampDesc(HistoryRows(db, user_id)), limit)
       IN [history |-> [i \in 1..Len(messages) |->
                          [sender |-> Reversed(messages)[i].sender,
                           message_text |-> Reversed(messages)[i].message_text]],
           raised |-> FALSE]

----------------------------------------------------------------------------
(* core/agent_manager.py and main.py *)

HistoryLimit == 10

\* What one agent.run does to the session, as far as the session can tell: the
\* extension writes its tool calls make on ctx.deps, in order, and whether the run
\* then raises instead of returning.  save_user_name writes a str; a plug-in tool
\* may write any value (set_user_data takes Any): a datetime, a set.
WriteName == [key |-> "user_name", value |-> PyStr(CHOOSE n \in Names : TRUE)]
WriteSeen(t) == [key |-> "last_seen", value |-> PyDatetime(t)]
WriteBlob == [key |-> "blob", value |-> PySet]

AgentRuns(t) ==
  {[writes |-> w, raises |-> FALSE] : w \in {<<>>, <<WriteName>>, <<WriteSeen(t)>>, <<WriteBlob>>}}
  \cup {[writes |-> w, raises |-> TRUE] : w \in {<<>>, <<WriteName>>}}

\* str(result) of a run that returned
Reply(message) == "re:" \o message

RECURSIVE ApplyWrites(_, _)
ApplyWrites(ctx, writes) ==
  IF writes = <<>> THEN ctx
  ELSE ApplyWrites(set_user_data(ctx, Head(writes).key, Head(writes).value), Tail(writes))

NoCall == [attempted |-> FALSE, committed |-> FALSE, raised |-> FALSE]
Called(r) == [attempted |-> TRUE, committed |-> r.committed, raised |-> r.raised]

\* chat without its try: what agent.run raises leaves chat
chat_unguarded(mgr, db, message, run, f, t) ==
  LET ctx1 == update_activity(mgr.context, t + 1)
      user_saved == save_chat_message(db, mgr.user_id, message, "user", f.user, t + 2)
      ctx2 == ApplyWrites(ctx1, run.writes)
      bot_saved == save_chat_message(user_saved.db, mgr.user_id, Reply(message), "bot",
                                     f.bot, t + 3)
      ctx_saved == save_context(bot_saved.db, mgr.user_id, ctx2, f.save, t + 4)
  IN IF run.raises
     THEN [context |-> ctx2, db |-> user_saved.db, returned |-> "", raised |-> TRUE,
           steps |-> <<"update_activity", "save_user_message", "agent_run">>,
           user_msg |-> Called(user_saved), bot_msg |-> NoCall, save |-> NoCall,
           save_before |-> ctx2, save_after |-> ctx2,
           observed |-> ctx1.session_data.message_count]
     ELSE [context |-> ctx_saved.context, db |-> ctx_saved.db, returned |-> Reply(message),
           raised |-> FALSE,
           steps |-> <<"update_activity", "save_user_message", "agent_run",
                       "save_bot_message", "save_context">>,
           user_msg |-> Called(user_saved), bot_msg |-> Called(bot_saved),
           save |-> Called(ctx_saved), save_before |-> ctx2,
           save_after |-> ctx_saved.context,
           observed |-> ctx1.session_data.message_count]

\* chat with update_activity moved behind the agent run
chat_counts_late(mgr, db, message, run, f, t) ==
  LET user_saved == save_chat_message(db, mgr.user_id, message, "user", f.user, t + 1)
      ctx1 == ApplyWrites(mgr.context, run.writes)
      ctx2 == update_activity(ctx1, t + 2)
      bot_saved == save_chat_message(user_saved.db, mgr.user_id, Reply(message), "bot",
                                     f.bot, t + 3)
      ctx_saved == save_context(bot_saved.db, mgr.user_id, ctx2, f.save, t + 4)
  IN IF run.raises
     THEN [context |-> ctx1, db |-> user_saved.db, returned |-> Fallback, raised |-> FALSE,
           steps |-> <<"save_user_message", "agent_run">>,
           user_msg |-> Called(user_saved), bot_msg |-> NoCall, save |-> NoCall,
           save_before |-> ctx1, save_after |-> ctx1,
           observed |-> mgr.context.session_data.message_count]
     ELSE [context |-> ctx_saved.context, db |-> ctx_saved.db, returned |-> Reply(message),
           raised |-> FALSE,
           steps |-> <<"save_user_message", "agent_run", "update_activity",
                       "save_bot_message", "save_context">>,
           user_msg |-> Called(user_saved), bot_msg |-> Called(bot_saved),
           save |-> Called(ctx_saved), save_before |-> ctx2,
           save_after |-> ctx_saved.context,
           observed |-> mgr.context.session_data.message_count]

\* AgentManager.chat: f.user, f.bot and f.save are the faults of its three gateway
\* calls; the clock is read at t+1 (update_activity) and by the three transactions.
\* observed is the message_count of the context handed to agent.run as deps.
chat(mgr, db, message, run, f, t) ==
  LET ctx1 == update_activity(mgr.context, t + 1)
      user_saved == save_chat_message(db, mgr.user_id, message, "user", f.user, t + 2)
      ctx2 == ApplyWrites(ctx1, run.writes)
      bot_response == Reply(message)
      bot_saved == save_chat_message(user_saved.db, mgr.user_id, bot_response, "bot",
                                     f.bot, t + 3)
      ctx_saved == save_context(bot_saved.db, mgr.user_id, ctx2, f.save, t + 4)
      Caught(ctx, d, steps, u, b, sv) ==
        [context |-> ctx, db |-> d, returned |-> Fallback, raised |-> FALSE,
         steps |-> steps, user_msg |-> u, bot_msg |-> b, save |-> sv,
         save_before |-> ctx, save_after |-> ctx,
         observed |-> ctx1.session_data.message_count]
  IN IF user_saved.raised
     THEN Caught(ctx1, user_saved.db, <<"update_activity", "save_user_message">>,
                 Called(user_saved), NoCall, NoCall)
     ELSE IF run.raises
     THEN Caught(ctx2, user_saved.db,
                 <<"update_activity", "save_user_message", "agent_run">>,
                 Called(user_saved), NoCall, NoCall)
     ELSE IF bot_saved.raised
     THEN Caught(ctx2, bot_saved.db,
                 <<"update_activity", "save_user_message", "agent_run", "save_bot_message">>,
                 Called(user_saved), Called(bot_saved), NoCall)
     ELSE IF ctx_saved.raised
     THEN [Caught(ctx_saved.context, ctx_saved.db,
                 <<"update_activity", "save_user_message", "agent_run", "save_bot_message",
                   "save_context">>,
                 Called(user_saved), Called(bot_saved), Called(ctx_saved))
           EXCEPT !.save_before = ctx2]
     ELSE [context |-> ctx_saved.context, db |-> ctx_saved.db, returned |-> bot_response,
           raised |-> FALSE,
           steps |-> <<"update_activity", "save_user_message", "agent_run",
                       "save_bot_message", "save_context">>,
           user_msg |-> Called(user_saved), bot_msg |-> Called(bot_saved),
           save |-> Called(ctx_saved), save_before |-> ctx2,
           save_after |-> ctx_saved.context,
           observed |-> ctx1.session_data.message_count]

\* AgentManager.chat in a task whose cancellation is pending: the statements up to
\* the first suspension run, then CancelledError is thrown into agent.run; it is no
\* Exception, so the except clause of chat does not catch it
chat_cancelled(mgr, db, message, f, t) ==
  LET ctx1 == update_activity(mgr.context, t + 1)
      user_saved == save_chat_message(db, mgr.user_id, message, "user", f.user, t + 2)
  IN [context |-> ctx1, db |-> user_saved.db, returned |-> None, raised |-> TRUE,
      steps |-> <<"update_activity", "save_user_message", "agent_run">>,
      user_msg |-> Called(user_saved), bot_msg |-> NoCall, save |-> NoCall,
      save_before |-> ctx1, save_after |-> ctx1,
      observed |-> ctx1.session_data.message_count]

\* AgentManager.save_context
manager_save_context(mgr, db, fault, t) == save_context(db, mgr.user_id, mgr.context, fault, t)

\* AgentManager.get_stats: reads only (duration_minutes left out)
get_stats(mgr, reg) ==
  [session_id |-> mgr.context.session_data.session_id,
   messages |-> mgr.context.session_data.message_count,
   tools_loaded |-> Len(reg.tools),
   user_data_keys |-> DOMAIN mgr.context.custom_data]

\* setup_agent without the call of validate_config
setup_agent_unvalidated(db, user_id, key_set, f, t) ==
  LET loaded == load_context(db, user_id, f.context, t)
      history == load_chat_history(loaded.db, user_id, HistoryLimit, f.history)
  IN [raised |-> FALSE, db |-> loaded.db, context |-> loaded.context,
      chat_history |-> history.history, found |-> loaded.found,
      steps |-> <<"load_context", "load_chat_history">>]

\* AgentConfig.validate_config, then the two loads of AgentManager.setup_agent
setup_agent(db, user_id, key_set, f, t) ==
  IF ~key_set THEN [raised |-> TRUE, db |-> db, steps |-> <<"validate_config">>]
  ELSE LET loaded == load_context(db, user_id, f.context, t)
           history == load_chat_history(loaded.db, user_id, HistoryLimit, f.history)
       IN IF loaded.raised
          THEN [raised |-> TRUE, db |-> loaded.db,
                steps |-> <<"validate_config", "load_context">>]
          ELSE IF history.raised
          THEN [raised |-> TRUE, db |-> loaded.db,
                steps |-> <<"validate_config", "load_context", "load_chat_history">>]
          ELSE [raised |-> FALSE, db |-> loaded.db, context |-> loaded.context,
                chat_history |-> history.history, found |-> loaded.found,
                steps |-> <<"validate_config", "load_context", "load_chat_history">>]

----------------------------------------------------------------------------
(* core/tool_registry.py.  A Python dict keeps its keys in insertion order: *)
(* it is a sequence of items here, and d[k] = v replaces in place or adds   *)
(* at the end.                                                              *)

Item(k, v) == [key |-> k, value |-> v]
Keys(d) == {d[i].key : i \in DOMAIN d}
Lookup(d, k) == d[CHOOSE i \in DOMAIN d : d[i].key = k].value
DictPut(d, k, v) ==
  IF k \in Keys(d) THEN [i \in DOMAIN d |-> IF d[i].key = k THEN Item(k, v) ELSE d[i]]
  ELSE Append(d, Item(k, v))

PyNone == [ty |-> "none"]
Falsy(v) == v.ty = "none" \/ (v.ty = "dict" /\ DOMAIN v.d = {})

Registry(t, m) == [tools |-> t, tool_metadata |-> m]

\* register_tool keeping the entry a name already has
register_tool_first_wins(reg, name, func, metadata) ==
  IF name \in Keys(reg.tools) THEN [reg |-> reg, raised |-> FALSE]
  ELSE [reg |-> Registry(Append(reg.tools, Item(name, func)),
                         Append(reg.tool_metadata,
                                Item(name, IF Falsy(metadata) THEN PyDict(EmptyDict)
                                           ELSE metadata))),
        raised |-> FALSE]

\* ToolRegistry.register_tool
register_tool(reg, name, func, metadata) ==
  [reg |-> Registry(DictPut(reg.tools, name, func),
                    DictPut(reg.tool_metadata, name,
                            IF Falsy(metadata) THEN PyDict(EmptyDict) ELSE metadata)),
   raised |-> FALSE]

\* the members of one imported module that are marked functions, registered in the
\* order inspect.getmembers gives them
Call(name, func, metadata) == [name |-> name, func |-> func, metadata |-> metadata]

RECURSIVE RegisterMembers(_, _, _, _)
RegisterMembers(reg, members, discovered, calls) ==
  IF members = <<>>
  THEN [reg |-> reg, discovered |-> discovered, raised |-> FALSE, calls |-> calls]
  ELSE LET m == Head(members)
       IN IF m.is_function /\ m.marked
          THEN LET r == register_tool(reg, m.name, m.func, m.func.tool_metadata)
                   made == Append(calls, Call(m.name, m.func, m.func.tool_metadata))
               IN IF r.raised
                  THEN [reg |-> r.reg, discovered |-> discovered, raised |-> TRUE,
                        calls |-> made]
                  ELSE RegisterMembers(r.reg, Tail(members), Append(discovered, m.name), made)
          ELSE RegisterMembers(reg, Tail(members), discovered, calls)

\* the loop of auto_discover_tools over the files glob yields; only ImportError
\* is caught, any other exception of import_module leaves the loop and the method
RECURSIVE DiscoverFiles(_, _, _, _)
DiscoverFiles(reg, files, discovered, calls) ==
  IF files = <<>>
  THEN [reg |-> reg, discovered |-> discovered, raised |-> FALSE, calls |-> calls]
  ELSE LET file == Head(files)
       IN IF file.dunder THEN DiscoverFiles(reg, Tail(files), discovered, calls)
          ELSE IF file.load = "ImportError"
          THEN DiscoverFiles(reg, Tail(files), discovered, calls)
          ELSE IF file.load = "SyntaxError"
          THEN [reg |-> reg, discovered |-> discovered, raised |-> TRUE, calls |-> calls]
          ELSE LET r == RegisterMembers(reg, file.members, discovered, calls)
               IN IF r.raised THEN r
                  ELSE DiscoverFiles(r.reg, Tail(files), r.discovered, r.calls)

\* ToolRegistry.auto_discover_tools
auto_discover_tools(reg, directory) ==
  IF ~directory.exists
  THEN [reg |-> reg, discovered |-> <<>>, raised |-> FALSE, calls |-> <<>>]
  ELSE DiscoverFiles(reg, directory.files, <<>>, <<>>)

\* ToolRegistry.list_tools
RECURSIVE ListItems(_, _, _)
ListItems(reg, items, out) ==
  IF items = <<>> THEN out
  ELSE LET name == Head(items).key
           func == Head(items).value
       IN ListItems(reg, Tail(items),
            DictPut(out, name,
              [function |-> func.name,
               doc |-> IF func.doc = "" THEN "Sem descrição" ELSE func.doc,
               metadata |-> IF name \in Keys(reg.tool_metadata)
                            THEN Lookup(reg.tool_metadata, name)
                            ELSE PyDict(EmptyDict)]))

list_tools(reg) == ListItems(reg, reg.tools, <<>>)

\* what list_tools hands out as an entry's "metadata": self.tool_metadata.get(name, {})
\* is the dict object the registry holds under name, not a copy of it; a new dict
\* only when the registry holds none
MetadataObject(reg, name) ==
  IF name \in Keys(reg.tool_metadata) THEN [held_by_registry |-> TRUE, name |-> name]
  ELSE [held_by_registry |-> FALSE]

\* a caller's listing[name]["metadata"][key] = value on a result of list_tools: the
\* write goes to the object MetadataObject names
set_listed_metadata(reg, listing, name, key, value) ==
  LET entry == Lookup(listing, name)
      written == PyDict(DictSet(entry.metadata.d, key, value))
  IN [listing |-> DictPut(listing, name, [entry EXCEPT !.metadata = written]),
      reg |-> IF MetadataObject(reg, name).held_by_registry
              THEN Registry(reg.tools, DictPut(reg.tool_metadata, name, written))
              ELSE reg]

\* a caller's del listing[name]: the outer dict is built anew by every call
del_listed(reg, listing, name) ==
  [listing |-> SelectSeq(listing, LAMBDA item : item.key # name), reg |-> reg]

\* what agent.tool(tool_func) leaves in the Agent's tool table: the handle; the
\* registry key it was bound for and who bound it are kept beside it as history
Binding(name, func, origin) == [name |-> name, func |-> func, origin |-> origin]

RECURSIVE AttachItems(_, _)
AttachItems(items, agent) ==
  IF items = <<>> THEN agent
  ELSE AttachItems(Tail(items),
                   Append(agent, Binding(Head(items).key, Head(items).value, "registry")))

\* attach_tools_to_agent binding only the names the agent has no binding for
attach_tools_to_agent_once(reg, agent) ==
  [reg |-> reg,
   agent |-> AttachItems(SelectSeq(reg.tools,
                           LAMBDA item : \A i \in DOMAIN agent : agent[i].name # item.key),
                         agent)]

\* ToolRegistry.attach_tools_to_agent: agent.tool(tool_func) for every item of
\* self.tools, in the dict's order
attach_tools_to_agent(reg, agent) ==
  [reg |-> reg, agent |-> AttachItems(reg.tools, agent)]

\* tools_config as the process reads it
ToolsConfig(auto_discovery, directory) ==
  [auto_discovery |-> auto_discovery, tools_directory |-> directory]

\* AgentManager.load_tools: discovery when configured, attach, list
load_tools(reg, agent, config) ==
  LET d == IF config.auto_discovery
           THEN auto_discover_tools(reg, config.tools_directory)
           ELSE [reg |-> reg, discovered |-> <<>>, raised |-> FALSE, calls |-> <<>>]
  IN IF d.raised
     THEN [reg |-> d.reg, agent |-> agent, calls |-> d.calls, raised |-> TRUE,
           tools_list |-> <<>>]
     ELSE LET a == attach_tools_to_agent(d.reg, agent)
          IN [reg |-> a.reg, agent |-> a.agent, calls |-> d.calls, raised |-> FALSE,
              tools_list |-> list_tools(a.reg)]

\* the two tools setup_agent binds itself, after load_tools
save_user_name == [name |-> "save_user_name", module |-> "core.agent_manager",
                   doc |-> "Salva o nome do usuario", tool_metadata |-> PyNone]
check_data_persistence == [name |-> "check_data_persistence",
                           module |-> "core.agent_manager",
                           doc |-> "Informa a politica de persistencia",
                           tool_metadata |-> PyNone]

\* setup_agent from Agent(...) on: a new Agent, load_tools, the manager's own tools
build_agent(reg, config) ==
  LET l == load_tools(reg, <<>>, config)
  IN IF l.raised
     THEN [reg |-> l.reg, agent |-> <<>>, calls |-> l.calls, raised |-> TRUE]
     ELSE [reg |-> l.reg,
           agent |-> l.agent \o
                     <<Binding("save_user_name", save_user_name, "manager"),
                       Binding("check_data_persistence", check_data_persistence,
                               "manager")>>,
           calls |-> l.calls, raised |-> FALSE]

----------------------------------------------------------------------------
(* tools/*.py.  A tool is called with ctx.deps, the session's context, and  *)
(* returns a str or raises.  A str is kept as its leading marker and the    *)
(* message after it; a str the code inspects character by character is a    *)
(* sequence of one-character strings.                                       *)

\* the cross mark U+274C every error string of the tools starts with
FailureMarker == "(x)"
Text(marker, message) == [ty |-> "str", marker |-> marker, message |-> message]
Returned(ctx, text) == [ctx |-> ctx, raised |-> FALSE, result |-> text]
Raised(ctx, exception) == [ctx |-> ctx, raised |-> TRUE, exception |-> exception]

\* seq[-n:]
LastItems(seq, n) ==
  IF Len(seq) <= n THEN seq ELSE SubSeq(seq, Len(seq) - n + 1, Len(seq))

\* str.replace(old, new) on a sequence of characters
RECURSIVE Replace(_, _, _)
Replace(s, old, new) ==
  IF Len(s) < Len(old) THEN s
  ELSE IF SubSeq(s, 1, Len(old)) = old
       THEN new \o Replace(SubSeq(s, Len(old) + 1, Len(s)), old, new)
       ELSE <<Head(s)>> \o Replace(Tail(s), old, new)

\* str.lower(), for the letters the inputs hold in upper case
LowerChar(c) == CASE c = "P" -> "p" [] c = "I" -> "i" [] OTHER -> c
Lower(s) == [i \in DOMAIN s |-> LowerChar(s[i])]

\* tools/calculator.py: the names bound in the module and in calculate
calculator_names == {"RunContext", "ConversationContext", "Annotated", "math", "re"}

\* calculate's replacements dict, in its order
replacements ==
  << <<<<"s","q","r","t">>, <<"m","a","t","h",".","s","q","r","t">>>>,
     <<<<"s","i","n">>, <<"m","a","t","h",".","s","i","n">>>>,
     <<<<"c","o","s">>, <<"m","a","t","h",".","c","o","s">>>>,
     <<<<"t","a","n">>, <<"m","a","t","h",".","t","a","n">>>>,
     <<<<"l","o","g">>, <<"m","a","t","h",".","l","o","g">>>>,
     <<<<"l","n">>, <<"m","a","t","h",".","l","o","g">>>>,
     <<<<"p","i">>, <<"m","a","t","h",".","p","i">>>>,
     <<<<"e">>, <<"m","a","t","h",".","e">>>>,
     <<<<"^">>, <<"*","*">>>> >>

RECURSIVE ReplaceAll(_, _)
ReplaceAll(s, pairs) ==
  IF pairs = <<>> THEN s
  ELSE ReplaceAll(Replace(s, Head(pairs)[1], Head(pairs)[2]), Tail(pairs))

allowed ==
  {"0","1","2","3","4","5","6","7","8","9","+","-","*","/","(",")",".",
   "m","a","t","h","s","q","r","i","n","c","o","l","g","p","e"," "}

\* eval(expression) on the expressions the checks use
Eval(expression) ==
  CASE expression = <<"2","+","2">> -> [raised |-> FALSE, value |-> PyInt(4)]
    [] expression = <<"2","*","*","3">> -> [raised |-> FALSE, value |-> PyInt(8)]
    [] expression = <<"m","a","t","h",".","p","i">>
         -> [raised |-> FALSE, value |-> PyStr("3.141592653589793")]
    [] expression = <<"1","/","0">> -> [raised |-> TRUE, message |-> "division by zero"]
    [] OTHER -> [raised |-> TRUE, message |-> "invalid syntax"]

CalcHistoryCap == 10

\* the expression after replace(" ", ""), lower() and the replacements
CalcExpression(expression) ==
  ReplaceAll(Lower(SelectSeq(expression, LAMBDA c : c # " ")), replacements)

\* all(c in allowed for c in expression)
CalcPermitted(replaced) == \A i \in DOMAIN replaced : replaced[i] \in allowed

\* tools.calculator.calculate: everything after `try:` sits under
\* `except Exception`, the use of the unbound name datetime included
calculator_calculate(ctx, expression, t) ==
  LET replaced == CalcExpression(expression)
  IN IF ~CalcPermitted(replaced)
     THEN Returned(ctx, Text(FailureMarker, "Operacao nao permitida"))
     ELSE LET e == Eval(replaced)
          IN IF e.raised
             THEN Returned(ctx, Text(FailureMarker, "Erro no calculo: " \o e.message))
             ELSE IF "datetime" \notin calculator_names
             THEN Returned(ctx, Text(FailureMarker,
                                     "Erro no calculo: name 'datetime' is not defined"))
             ELSE LET history == get_user_data(ctx, "calc_history", PyList(<<>>))
                      entry == PyDict([expression |-> PyStr(replaced),
                                       result |-> e.value,
                                       timestamp |-> PyStr(ToString(t))])
                      grown == Append(history.l, entry)
                  IN Returned(set_user_data(ctx, "calc_history",
                                            PyList(LastItems(grown, CalcHistoryCap))),
                              Text("calc", replaced))

\* tools/unit_converter.py: the names bound in the module
unit_converter_names ==
  {"RunContext", "ConversationContext", "Annotated", "Dict", "Callable", "math"}

\* get_conversion_table(): the factor of a pair, in millionths
ConversionFactor ==
  (<<"km", "milhas">> :> 621371) @@ (<<"milhas", "km">> :> 1609340)

\* normalize_unit_name: lower(), strip(), then the aliases
UnitLowerStrip(unit) == IF unit = " KM " THEN "km" ELSE unit
UnitAliases == ("quilometros" :> "km") @@ ("milhas" :> "milhas")
normalize_unit_name(unit) ==
  LET u == UnitLowerStrip(unit)
  IN IF u \in DOMAIN UnitAliases THEN UnitAliases[u] ELSE u

get_unit_category(unit) ==
  IF unit \in {"km", "milhas", "m", "ft", "cm", "in"} THEN "distancia" ELSE "geral"

ConversionHistoryCap == 20

\* tools.unit_converter.convert_units: no try; find_base_conversion returns None
unit_converter_convert_units(ctx, value, from_unit, to_unit, precision, t) ==
  LET from == normalize_unit_name(from_unit)
      to == normalize_unit_name(to_unit)
  IN IF <<from, to>> \notin DOMAIN ConversionFactor
     THEN Returned(ctx, Text(FailureMarker, "Conversao nao suportada"))
     ELSE IF "datetime" \notin unit_converter_names
     THEN Raised(ctx, "NameError")
     ELSE LET result == value * ConversionFactor[<<from, to>>]
              history == get_user_data(ctx, "conversion_history", PyList(<<>>))
              entry == PyDict([from |-> PyStr(from), to |-> PyStr(to),
                               value |-> PyInt(value), result |-> PyInt(result),
                               category |-> PyStr(get_unit_category(from)),
                               timestamp |-> PyStr(ToString(t))])
              grown == Append(history.l, entry)
          IN Returned(set_user_data(ctx, "conversion_history",
                                    PyList(LastItems(grown, ConversionHistoryCap))),
                      Text("conv", get_unit_category(from)))

\* datetime.strptime(s, '%Y-%m-%d') on the dates the checks use
Strptime(s) ==
  CASE s = "2026-12-31" -> [raised |-> FALSE]
    [] OTHER -> [raised |-> TRUE]

\* tools/task_manager.py: what manage_task starts from when the key is absent
NoTasks ==
  PyDict([tasks |-> PyList(<<>>), next_id |-> PyInt(1), completed_count |-> PyInt(0)])

TasksData(tasks, next_id, completed_count) ==
  PyDict([tasks |-> PyList(tasks), next_id |-> PyInt(next_id),
          completed_count |-> PyInt(completed_count)])

NewTask(id, task, priority, due_date, t) ==
  PyDict([id |-> PyInt(id), description |-> PyStr(task), priority |-> PyStr(priority),
          due_date |-> PyStr(due_date), created |-> PyStr(IsoFormat(t)),
          completed |-> PyBool(FALSE), completed_date |-> PyNone])

\* manage_task giving a new task the number of tasks held plus one
task_manager_manage_task_counting(ctx, action, task, task_id, priority, due_date, t) ==
  LET data == get_user_data(ctx, "tasks", NoTasks).d
      tasks == data.tasks.l
  IN IF action = "add" /\ task # ""
     THEN Returned(set_user_data(ctx, "tasks",
                     TasksData(Append(tasks, NewTask(Len(tasks) + 1, task, "medium", "", t)),
                               Len(tasks) + 2, data.completed_count.n)),
                   Text("added", ToString(Len(tasks) + 1)))
     ELSE IF action = "remove" /\ \E i \in DOMAIN tasks : tasks[i].d.id.n = task_id
     THEN Returned(set_user_data(ctx, "tasks",
                     TasksData(SelectSeq(tasks, LAMBDA x : x.d.id.n # task_id),
                               data.next_id.n, data.completed_count.n)),
                   Text("removed", ToString(task_id)))
     ELSE Returned(ctx, Text(FailureMarker, "nada"))

\* tools.task_manager.manage_task
task_manager_manage_task(ctx, action, task, task_id, priority, due_date, t) ==
  LET stored == "tasks" \in DOMAIN ctx.custom_data
      data == get_user_data(ctx, "tasks", NoTasks).d
      tasks == data.tasks.l
      next_id == data.next_id.n
      completed_count == data.completed_count.n
  IN CASE action = "add" ->
            IF task = ""
            THEN Returned(ctx, Text(FailureMarker, "Forneca a descricao da tarefa"))
            ELSE IF due_date # "" /\ Strptime(due_date).raised
            THEN Returned(ctx, Text(FailureMarker, "Formato de data invalido"))
            ELSE LET p == IF priority \in {"low", "medium", "high"} THEN priority
                          ELSE "medium"
                     new_task == NewTask(next_id, task, p, due_date, t)
                 IN Returned(set_user_data(ctx, "tasks",
                               TasksData(Append(tasks, new_task), next_id + 1,
                                         completed_count)),
                             Text("added", ToString(next_id)))
       [] action = "list" ->
            IF tasks = <<>> THEN Returned(ctx, Text("list", "Nenhuma tarefa cadastrada!"))
            ELSE Returned(ctx, Text("list", "SUAS TAREFAS"))
       [] action = "complete" ->
            IF task_id <= 0
            THEN Returned(ctx, Text(FailureMarker, "Forneca o ID da tarefa"))
            ELSE LET open == {i \in DOMAIN tasks :
                                tasks[i].d.id.n = task_id /\ ~tasks[i].d.completed.b}
                 IN IF open = {}
                    THEN Returned(ctx, Text(FailureMarker,
                                            "nao encontrada ou ja esta completa"))
                    ELSE LET i == CHOOSE x \in open : \A y \in open : x <= y
                             done == PyDict([tasks[i].d EXCEPT
                                       !.completed = PyBool(TRUE),
                                       !.completed_date = PyStr(IsoFormat(t))])
                         IN Returned(set_user_data(ctx, "tasks",
                                       TasksData([tasks EXCEPT ![i] = done], next_id,
                                                 completed_count + 1)),
                                     Text("completed", ToString(task_id)))
       [] action = "remove" ->
            IF task_id <= 0
            THEN Returned(ctx, Text(FailureMarker, "Forneca o ID da tarefa"))
            ELSE LET kept == SelectSeq(tasks, LAMBDA x : x.d.id.n # task_id)
                     \* tasks_data['tasks'] = [...] is an assignment into the dict the
                     \* context holds, when it holds one
                     assigned == TasksData(kept, next_id, completed_count)
                 IN IF Len(kept) < Len(tasks)
                    THEN Returned(set_user_data(ctx, "tasks", assigned),
                                  Text("removed", ToString(task_id)))
                    ELSE Returned(IF stored THEN set_user_data(ctx, "tasks", assigned)
                                  ELSE ctx,
                                  Text(FailureMarker, "nao encontrada"))
       [] action = "search" ->
            IF task = ""
            THEN Returned(ctx, Text(FailureMarker, "Forneca o termo de busca"))
            ELSE Returned(ctx, Text("search", task))
       [] action = "stats" ->
            IF \E i \in DOMAIN tasks :
                 /\ ~tasks[i].d.completed.b
                 /\ tasks[i].d.due_date.s # ""
                 /\ Strptime(tasks[i].d.due_date.s).raised
            THEN Raised(ctx, "ValueError")
            ELSE Returned(ctx, Text("stats", ToString(Len(tasks))))
       [] OTHER -> Returned(ctx, Text(FailureMarker, "Acao invalida"))

----------------------------------------------------------------------------
(* The sessions.  Every operation is one action: the constructor as main()  *)
(* runs it, one call of chat, the exit command.                             *)

store == Store(user_contexts, chat_history, chat_seq)

NoSession == [state |-> "Uninitialized", user_id |-> "", context |-> None,
              chat_history |-> <<>>]

Count(flags) == Cardinality({i \in DOMAIN flags : flags[i]})

InitStore ==
  /\ user_contexts = {}
  /\ chat_history = {}
  /\ chat_seq = 1

InitSessions ==
  /\ now = 0
  /\ session = [p \in Procs |-> NoSession]
  /\ faults = 0
  /\ turns = 0
  /\ appended = [u \in Users |-> <<>>]
  /\ saved = [u \in Users |-> None]
  /\ dirty = [p \in Procs |-> [keys |-> {}, failed |-> FALSE]]
  /\ last = [op |-> "init"]

InitRegistry ==
  /\ tools = <<>>
  /\ tool_metadata = <<>>
  /\ registered = <<>>
  /\ discovers = 0
  /\ found_calls = <<>>
  /\ reg_last = [op |-> "init"]
  /\ agent_tools = [a \in Agents |-> <<>>]

Init == InitStore /\ InitSessions /\ InitRegistry

SetStore(d) ==
  /\ user_contexts' = d.user_contexts
  /\ chat_history' = d.chat_history
  /\ chat_seq' = d.chat_seq

\* main() up to its loop: AgentManager(user_id); an error there ends the process
StartWithin(p, budget) ==
  /\ session[p].state = "Uninitialized"
  /\ \A q \in Procs : session[q].state # "Ready"
  /\ p = "p2" => session["p1"].state # "Uninitialized"
  /\ \E u \in Users, key_set \in BOOLEAN, fc \in BOOLEAN, fh \in BOOLEAN :
       LET f == [context |-> fc, history |-> fh]
       IN /\ ~key_set => ~fc /\ ~fh
          /\ faults + Count(f) <= budget
          /\ \E r \in {setup_agent(store, u, key_set, f, now)} :
             /\ faults' = faults + Count(f)
             /\ SetStore(r.db)
             /\ now' = now + 3
             /\ session' = [session EXCEPT ![p] =
                  IF r.raised THEN [NoSession EXCEPT !.state = "Failed", !.user_id = u]
                  ELSE [state |-> "Ready", user_id |-> u, context |-> r.context,
                        chat_history |-> r.chat_history]]
             /\ last' = [op |-> "start", proc |-> p, user_id |-> u, key_set |-> key_set,
                         f |-> f, raised |-> r.raised, before |-> store,
                         steps |-> r.steps,
                         found |-> IF r.raised THEN FALSE ELSE r.found,
                         context |-> IF r.raised THEN None ELSE r.context]
             /\ UNCHANGED <<turns, appended, saved, dirty>>

Start(p) == StartWithin(p, MaxFaults)

Entry(sender, text) == [sender |-> sender, message_text |-> text]

\* the keys among writes whose value in memory the run changed
Changed(ctx, writes) ==
  {writes[i].key : i \in {j \in DOMAIN writes :
      \/ writes[j].key \notin DOMAIN ctx.custom_data
      \/ ctx.custom_data[writes[j].key] # writes[j].value}}

\* the loop forwards one input line to manager.chat
ChatWithin(p, budget) ==
  /\ session[p].state = "Ready"
  /\ turns < MaxTurns
  /\ \E run \in AgentRuns(now + 2), fu \in BOOLEAN, fb \in BOOLEAN, fs \in BOOLEAN :
       LET f == [user |-> fu, bot |-> fb, save |-> fs]
           message == Msgs[(turns % Len(Msgs)) + 1]
           u == session[p].user_id
       IN /\ run.raises => ~fb /\ ~fs
          /\ faults + Count(f) <= budget
          /\ \E r \in {chat(session[p], store, message, run, f, now)} :
             /\ faults' = faults + Count(f)
             /\ turns' = turns + 1
             /\ SetStore(r.db)
             /\ now' = now + 4
             /\ session' = [session EXCEPT ![p].context = r.context]
             /\ appended' = [appended EXCEPT ![u] =
                  @ \o (IF r.user_msg.committed THEN <<Entry("user", message)>> ELSE <<>>)
                    \o (IF r.bot_msg.committed THEN <<Entry("bot", Reply(message))>> ELSE <<>>)]
             /\ saved' = IF r.save.committed THEN [saved EXCEPT ![u] = r.save_before]
                         ELSE saved
             /\ dirty' = [dirty EXCEPT ![p] =
                  [keys |-> IF run.raises
                            THEN @.keys \cup Changed(session[p].context, run.writes)
                            ELSE @.keys \ {run.writes[i].key : i \in DOMAIN run.writes},
                   failed |-> r.returned = Fallback]]
             /\ last' = [op |-> "chat", proc |-> p, user_id |-> u, message |-> message,
                         run |-> run, f |-> f, returned |-> r.returned, raised |-> r.raised,
                         steps |-> r.steps, user_msg |-> r.user_msg, bot_msg |-> r.bot_msg,
                         save |-> r.save, save_before |-> r.save_before,
                         save_after |-> r.save_after, before |-> store,
                         context_before |-> session[p].context,
                         after_failure |-> dirty[p].failed, observed |-> r.observed]

Chat(p) == ChatWithin(p, MaxFaults)

\* leaving the loop, by the exit command (op = "exit": get_stats,
\* manager.save_context(), break) or by KeyboardInterrupt raised at the prompt
\* (op = "interrupt": manager.save_context(), break).  An exception of
\* manager.save_context() is caught by the loop's except Exception on the exit
\* path, and the loop goes on.
ShutdownWithin(p, op, budget) ==
  /\ session[p].state \in {"Ready", "Cancelling"}
  /\ \E fs \in BOOLEAN :
       LET u == session[p].user_id
       IN /\ faults + Count(<<fs>>) <= budget
          /\ \E r \in {manager_save_context(session[p], store, fs, now + 1)} :
             /\ faults' = faults + Count(<<fs>>)
             /\ SetStore(r.db)
             /\ now' = now + 1
             /\ session' = [session EXCEPT ![p].context = r.context,
                                           ![p].state =
                                             IF r.raised /\ op = "exit" THEN "Ready"
                                             ELSE "Closed"]
             /\ saved' = IF r.committed THEN [saved EXCEPT ![u] = session[p].context]
                         ELSE saved
             /\ last' = [op |-> op, proc |-> p, user_id |-> u, f |-> [save |-> fs],
                         raised |-> r.raised, save |-> Called(r),
                         save_before |-> session[p].context, save_after |-> r.context,
                         before |-> store]
             /\ UNCHANGED <<turns, appended, dirty>>

Exit(p) == ShutdownWithin(p, "exit", MaxFaults)

\* SIGINT at the prompt under asyncio.run (run(), main.py:93): where the runner
\* installs its own handler, the first interrupt raises nothing inside input(); it
\* requests the cancellation of the main task and the prompt goes on waiting.
\* (Where KeyboardInterrupt is raised inside input(), and on a second interrupt,
\* the except clause of the loop runs: ShutdownWithin with op = "interrupt".)
InterruptCancels(p) ==
  /\ session[p].state = "Ready"
  /\ session' = [session EXCEPT ![p].state = "Cancelling"]
  /\ last' = [op |-> "interrupt", proc |-> p, user_id |-> session[p].user_id,
              f |-> [save |-> FALSE], raised |-> FALSE, save |-> NoCall,
              save_before |-> session[p].context, save_after |-> session[p].context,
              before |-> store]
  /\ UNCHANGED <<store_vars, now, faults, turns, appended, saved, dirty>>

\* a line typed after that interrupt: chat starts, is cancelled at agent.run, and
\* CancelledError leaves chat, the loop (neither except clause names it) and main();
\* run() prints its farewell.  No save_context is made.
CancelledTurn(p, budget) ==
  /\ session[p].state = "Cancelling"
  /\ turns < MaxTurns
  /\ \E fu \in BOOLEAN :
       LET f == [user |-> fu, bot |-> FALSE, save |-> FALSE]
           message == Msgs[(turns % Len(Msgs)) + 1]
           u == session[p].user_id
       IN /\ faults + Count(f) <= budget
          /\ \E r \in {chat_cancelled(session[p], store, message, f, now)} :
             /\ faults' = faults + Count(f)
             /\ turns' = turns + 1
             /\ SetStore(r.db)
             /\ now' = now + 2
             /\ session' = [session EXCEPT ![p].context = r.context,
                                           ![p].state = "Aborted"]
             /\ appended' = [appended EXCEPT ![u] =
                  @ \o (IF r.user_msg.committed THEN <<Entry("user", message)>> ELSE <<>>)]
             /\ last' = [op |-> "chat_cancelled", proc |-> p, user_id |-> u,
                         message |-> message, f |-> f, raised |-> r.raised,
                         steps |-> r.steps, user_msg |-> r.user_msg, bot_msg |-> r.bot_msg,
                         save |-> r.save, save_before |-> r.save_before,
                         save_after |-> r.save_after, before |-> store,
                         context_before |-> session[p].context]
             /\ UNCHANGED <<saved, dirty>>

Next ==
  \/ \E p \in Procs : Start(p) /\ UNCHANGED registry_vars
  \/ \E p \in Procs : Chat(p) /\ UNCHANGED registry_vars
  \/ \E p \in Procs : Exit(p) /\ UNCHANGED registry_vars

Spec == Init /\ [][Next]_vars

\* one process run of main() against a store that may fail at any gateway call
OutageNext ==
  \/ StartWithin("p1", MaxOutage) /\ UNCHANGED registry_vars
  \/ ChatWithin("p1", MaxOutage) /\ UNCHANGED registry_vars
  \/ ShutdownWithin("p1", "exit", MaxOutage) /\ UNCHANGED registry_vars
  \/ ShutdownWithin("p1", "interrupt", MaxOutage) /\ UNCHANGED registry_vars
  \/ InterruptCancels("p1") /\ UNCHANGED registry_vars
  \/ CancelledTurn("p1", MaxOutage) /\ UNCHANGED registry_vars

SpecOutage == Init /\ [][OutageNext]_vars

----------------------------------------------------------------------------
(* update_activity on its own: any context, any number of calls *)

\* contexts as a session holds them: fresh, or loaded with turns counted and
\* extension data, last_activity at or after start_time
ActivityContexts ==
  {[user_id |-> u, user_preferences |-> DefaultPreferences,
    session_data |-> [session_id |-> ToString(0), start_time |-> 1,
                      message_count |-> n, last_activity |-> a],
    custom_data |-> d] :
     u \in Users, n \in 0..MaxCount, a \in 1..3,
     d \in {EmptyDict, DictSet(EmptyDict, "user_name", PyStr("ana"))}}

InitActivity ==
  /\ InitStore
  /\ InitRegistry
  /\ faults = 0
  /\ turns = 0
  /\ appended = [u \in Users |-> <<>>]
  /\ saved = [u \in Users |-> None]
  /\ dirty = [p \in Procs |-> [keys |-> {}, failed |-> FALSE]]
  /\ \E ctx \in ActivityContexts :
       /\ now = ctx.session_data.last_activity
       /\ session = [p \in Procs |->
                       IF p = "p1"
                       THEN [state |-> "Ready", user_id |-> ctx.user_id, context |-> ctx,
                             chat_history |-> <<>>]
                       ELSE NoSession]
       /\ last = [op |-> "init", first |-> ctx, before |-> ctx]

\* self.context.update_activity(), the clock read by datetime.now()
UpdateActivity ==
  /\ turns < MaxCalls
  /\ \E t \in now..(now + MaxTick) :
       /\ now' = t
       /\ turns' = turns + 1
       /\ session' = [session EXCEPT !["p1"].context = update_activity(@, t)]
       /\ last' = [op |-> "update_activity", first |-> last.first,
                   before |-> session["p1"].context]
  /\ UNCHANGED <<faults, appended, saved, dirty>>

ActivityNext == UpdateActivity /\ UNCHANGED <<store_vars, registry_vars>>

SpecActivity == InitActivity /\ [][ActivityNext]_vars

----------------------------------------------------------------------------
(* The registry: the process-wide tool_registry and the calls made on it *)

MetaCalc == PyDict([name |-> PyStr("calculator"), version |-> PyStr("1.0.0")])
MetaCalc2 == PyDict([name |-> PyStr("calculator"), version |-> PyStr("2.0.0")])
MetaTasks == PyDict([name |-> PyStr("task_manager"), version |-> PyStr("2.0.0")])

Function(name, module, doc, metadata) ==
  [name |-> name, module |-> module, doc |-> doc, tool_metadata |-> metadata]

calculate == Function("calculate", "tools.calculator", "Calcula expressoes", MetaCalc)
calculate2 == Function("calculate", "tools.calc_v2", "", MetaCalc2)
manage_task == Function("manage_task", "tools.task_manager", "Gerencia tarefas", MetaTasks)
tool_metadata_fn == Function("tool_metadata", "tools.calculator", "Metadados", PyNone)

Member(f, marked) == [name |-> f.name, func |-> f, is_function |-> TRUE, marked |-> marked]
Class(name) == [name |-> name, func |-> PyNone, is_function |-> FALSE, marked |-> FALSE]

Module(stem, load, members) ==
  [stem |-> stem, dunder |-> FALSE, load |-> load, members |-> members]

FileCalc == Module("calculator", "ok",
                   <<Class("RunContext"), Member(calculate, TRUE),
                     Member(tool_metadata_fn, FALSE)>>)
FileCalc2 == Module("calc_v2", "ok", <<Member(calculate2, TRUE)>>)
FileTasks == Module("task_manager", "ok", <<Member(manage_task, TRUE)>>)
FileNoModule == Module("calendar_reader", "ImportError", <<>>)
FileUnparsable == Module("broken", "SyntaxError", <<>>)
FileInit == [Module("__init__", "ok", <<>>) EXCEPT !.dunder = TRUE]

Perms(S) == {q \in [1..Cardinality(S) -> S] : \A i, j \in DOMAIN q : q[i] = q[j] => i = j}

\* the directories discovery is run on: glob yields the files in any order
Directories ==
  {[exists |-> FALSE, files |-> <<>>]}
  \cup {[exists |-> TRUE, files |-> q] :
          q \in Perms({FileCalc, FileTasks, FileUnparsable})
                \cup Perms({FileTasks, FileNoModule})
                \cup {<<FileInit, FileCalc, FileCalc2>>}}

\* what register_tool is called with directly
ToolNames == {"calc", "calculate"}
Registrations == {<<calculate, PyNone>>, <<calculate, MetaCalc>>, <<calculate2, MetaCalc2>>}

registry == Registry(tools, tool_metadata)

SetRegistry(reg) ==
  /\ tools' = reg.tools
  /\ tool_metadata' = reg.tool_metadata

Register ==
  /\ Len(registered) - Len(found_calls) < MaxRegister
  /\ \E name \in ToolNames, a \in Registrations :
       \E r \in {register_tool(registry, name, a[1], a[2])} :
         /\ SetRegistry(r.reg)
         /\ registered' = Append(registered, Call(name, a[1], a[2]))
         /\ reg_last' = [op |-> "register", raised |-> r.raised]
         /\ UNCHANGED <<discovers, found_calls>>

Discover ==
  /\ discovers < MaxDiscover
  /\ \E directory \in Directories :
       \E r \in {auto_discover_tools(registry, directory)} :
         /\ SetRegistry(r.reg)
         /\ registered' = registered \o r.calls
         /\ discovers' = discovers + 1
         /\ found_calls' = found_calls \o r.calls
         /\ reg_last' = [op |-> "discover", directory |-> directory, raised |-> r.raised,
                         discovered |-> r.discovered, before |-> registry]

List ==
  /\ reg_last' = [op |-> "list", result |-> list_tools(registry), before |-> registry]
  /\ UNCHANGED <<tools, tool_metadata, registered, discovers, found_calls>>

RegistryNext ==
  \/ Register /\ UNCHANGED <<store_vars, session_vars, agent_tools>>
  \/ Discover /\ UNCHANGED <<store_vars, session_vars, agent_tools>>
  \/ List /\ UNCHANGED <<store_vars, session_vars, agent_tools>>

SpecRegistry == Init /\ [][RegistryNext]_vars

\* a caller of list_tools changes the mapping it was given (main.py holds it as
\* tools_list): an entry's nested metadata, or the entries themselves
TamperMetadata ==
  /\ reg_last.op = "list"
  /\ \E name \in Keys(reg_last.result) :
       \E r \in {set_listed_metadata(registry, reg_last.result, name, "version",
                                     PyStr("9.9.9"))} :
         /\ SetRegistry(r.reg)
         /\ reg_last' = [op |-> "tamper", kind |-> "metadata", name |-> name,
                         listed |-> reg_last.result, result |-> r.listing,
                         before |-> registry]
  /\ UNCHANGED <<registered, discovers, found_calls>>

TamperEntries ==
  /\ reg_last.op = "list"
  /\ \E name \in Keys(reg_last.result) :
       \E r \in {del_listed(registry, reg_last.result, name)} :
         /\ SetRegistry(r.reg)
         /\ reg_last' = [op |-> "tamper", kind |-> "entries", name |-> name,
                         listed |-> reg_last.result, result |-> r.listing,
                         before |-> registry]
  /\ UNCHANGED <<registered, discovers, found_calls>>

ListingNext ==
  \/ Register /\ UNCHANGED <<store_vars, session_vars, agent_tools>>
  \/ Discover /\ UNCHANGED <<store_vars, session_vars, agent_tools>>
  \/ List /\ UNCHANGED <<store_vars, session_vars, agent_tools>>
  \/ TamperMetadata /\ UNCHANGED <<store_vars, session_vars, agent_tools>>
  \/ TamperEntries /\ UNCHANGED <<store_vars, session_vars, agent_tools>>

SpecListing == Init /\ [][ListingNext]_vars

\* the tools directory of the process: calendar_reader fails to import (its
\* Google client libraries are missing), glob yields the files in any order
BootDirectories ==
  {[exists |-> TRUE, files |-> <<FileInit>> \o q \o <<FileNoModule>>] :
     q \in Perms({FileCalc, FileTasks})}

\* an AgentManager is constructed: setup_agent builds its Agent; auto_discovery
\* is True in config/settings.py and nothing overrides it
BuildAgent(a) ==
  /\ agent_tools[a] = <<>>
  /\ \E directory \in BootDirectories :
       \E r \in {build_agent(registry, ToolsConfig(TRUE, directory))} :
         /\ SetRegistry(r.reg)
         /\ registered' = registered \o r.calls
         /\ found_calls' = found_calls \o r.calls
         /\ discovers' = discovers + 1
         /\ agent_tools' = [agent_tools EXCEPT ![a] = r.agent]
         /\ reg_last' = [op |-> "build", agent |-> a, raised |-> r.raised,
                         before |-> registry, bound_before |-> agent_tools[a],
                         calls |-> r.calls,
                         ready_before |-> {b \in Agents : agent_tools[b] # <<>>}]

\* tool_registry.attach_tools_to_agent(agent) called on an Agent directly
Attach(a) ==
  /\ Len(agent_tools[a]) < MaxBindings
  /\ \E r \in {attach_tools_to_agent(registry, agent_tools[a])} :
       /\ SetRegistry(r.reg)
       /\ agent_tools' = [agent_tools EXCEPT ![a] = r.agent]
       /\ reg_last' = [op |-> "attach", agent |-> a, raised |-> FALSE,
                       before |-> registry, bound_before |-> agent_tools[a]]
  /\ UNCHANGED <<registered, discovers, found_calls>>

\* a registration made by hand before any manager exists
BootRegister == Register /\ registered = <<>>

BootNext ==
  \/ BootRegister /\ UNCHANGED <<store_vars, session_vars, agent_tools>>
  \/ \E a \in Agents : BuildAgent(a) /\ UNCHANGED <<store_vars, session_vars>>
  \/ \E a \in Agents : Attach(a) /\ UNCHANGED <<store_vars, session_vars>>

SpecBoot == Init /\ [][BootNext]_vars

----------------------------------------------------------------------------
(* Two sessions of different users running at once (two processes, or two    *)
(* managers on one event loop).  A turn is taken statement by statement:     *)
(* session[p].state says which statement of chat comes next, and the other   *)
(* session may act between any two of them.  The clock is read where chat    *)
(* reads it (update_activity) and the statements of a turn run within one    *)
(* tick of it.                                                               *)

UserOf == [p \in Procs |-> IF p = "p1" THEN "u1" ELSE "u2"]

\* the agent runs of the concurrent sessions
ConcurrentRuns ==
  {[writes |-> <<WriteName>>, raises |-> FALSE], [writes |-> <<>>, raises |-> TRUE]}

\* both users have a record from an earlier run, so that their messages are stored
InitConcurrent ==
  /\ InitSessions
  /\ InitRegistry
  /\ \E d1 \in {save_context(Store({}, {}, 1), "u1", ConversationContext("u1", 0),
                               FALSE, 3).db} :
       \E d2 \in {save_context(d1, "u2", ConversationContext("u2", 0), FALSE, 3).db} :
         /\ user_contexts = d2.user_contexts
         /\ chat_history = d2.chat_history
         /\ chat_seq = d2.chat_seq

Step(p, op, committed) == [op |-> op, proc |-> p, user_id |-> UserOf[p],
                           committed |-> committed]

\* AgentManager(user_id): validate_config, load_context, load_chat_history
CStart(p) ==
  /\ session[p].state = "Uninitialized"
  /\ \E r \in {setup_agent(store, UserOf[p], TRUE, [context |-> FALSE, history |-> FALSE],
                            now)} :
       /\ session' = [session EXCEPT ![p] =
            [state |-> "Ready", user_id |-> UserOf[p], context |-> r.context,
             chat_history |-> r.chat_history, message |-> "", run |-> None]]
       /\ last' = Step(p, "start", FALSE)
  /\ now' = now + 3
  /\ UNCHANGED <<store_vars, faults, turns, appended, saved, dirty>>

\* chat is called: self.context.update_activity()
CUpdateActivity(p) ==
  /\ session[p].state = "Ready"
  /\ turns < MaxTurns
  /\ \E run \in ConcurrentRuns :
       session' = [session EXCEPT ![p].state = "SaveUserMessage",
                                  ![p].context = update_activity(@, now + 1),
                                  ![p].message = Msgs[(turns % Len(Msgs)) + 1],
                                  ![p].run = run]
  /\ turns' = turns + 1
  /\ now' = now + 1
  /\ last' = Step(p, "update_activity", FALSE)
  /\ UNCHANGED <<store_vars, faults, appended, saved, dirty>>

\* save_chat_message(self.user_id, message, "user"); in this specification the
\* failing gateway calls are those of save_context
CSaveUserMessage(p) ==
  /\ session[p].state = "SaveUserMessage"
  /\ \E fault \in {FALSE} :
       /\ UNCHANGED faults
       /\ \E r \in {save_chat_message(store, UserOf[p], session[p].message, "user",
                                       fault, now)} :
            /\ SetStore(r.db)
            /\ appended' = [appended EXCEPT ![UserOf[p]] =
                 IF r.committed THEN Append(@, Entry("user", session[p].message)) ELSE @]
            /\ last' = Step(p, "save_user_message", r.committed)
  /\ session' = [session EXCEPT ![p].state = "AgentRun"]
  /\ UNCHANGED <<now, turns, saved, dirty>>

\* await self.agent.run(message, deps=self.context): the tools write into the
\* context; an exception is caught by chat, which returns the apology
CAgentRun(p) ==
  /\ session[p].state = "AgentRun"
  /\ session' = [session EXCEPT
       ![p].context = ApplyWrites(@, session[p].run.writes),
       ![p].state = IF session[p].run.raises THEN "Ready" ELSE "SaveBotMessage"]
  /\ last' = Step(p, "agent_run", FALSE)
  /\ UNCHANGED <<now, store_vars, faults, turns, appended, saved, dirty>>

\* save_chat_message(self.user_id, bot_response, "bot")
CSaveBotMessage(p) ==
  /\ session[p].state = "SaveBotMessage"
  /\ \E fault \in {FALSE} :
       /\ UNCHANGED faults
       /\ \E r \in {save_chat_message(store, UserOf[p], Reply(session[p].message), "bot",
                                       fault, now)} :
            /\ SetStore(r.db)
            /\ appended' = [appended EXCEPT ![UserOf[p]] =
                 IF r.committed THEN Append(@, Entry("bot", Reply(session[p].message)))
                 ELSE @]
            /\ last' = Step(p, "save_bot_message", r.committed)
  /\ session' = [session EXCEPT ![p].state = "SaveContext"]
  /\ UNCHANGED <<now, turns, saved, dirty>>

\* self.save_context() at the end of the turn (state SaveContext), and the one
\* of the exit command (state Ready), after which the loop breaks
CSaveContext(p) ==
  /\ session[p].state \in {"SaveContext", "Ready"}
  /\ \E fault \in BOOLEAN :
       /\ faults + Count(<<fault>>) <= MaxFaults
       /\ faults' = faults + Count(<<fault>>)
       /\ \E r \in {manager_save_context(session[p], store, fault, now)} :
            /\ SetStore(r.db)
            /\ saved' = IF r.committed
                        THEN [saved EXCEPT ![UserOf[p]] = session[p].context] ELSE saved
            /\ last' = Step(p, IF session[p].state = "Ready" THEN "exit"
                                ELSE "save_context", r.committed)
  /\ session' = [session EXCEPT
       ![p].state = IF session[p].state = "Ready" THEN "Closed" ELSE "Ready"]
  /\ UNCHANGED <<now, turns, appended, dirty>>

ConcurrentNext ==
  \/ \E p \in Procs : CStart(p) /\ UNCHANGED registry_vars
  \/ \E p \in Procs : CUpdateActivity(p) /\ UNCHANGED registry_vars
  \/ \E p \in Procs : CSaveUserMessage(p) /\ UNCHANGED registry_vars
  \/ \E p \in Procs : CAgentRun(p) /\ UNCHANGED registry_vars
  \/ \E p \in Procs : CSaveBotMessage(p) /\ UNCHANGED registry_vars
  \/ \E p \in Procs : CSaveContext(p) /\ UNCHANGED registry_vars

SpecConcurrent == InitConcurrent /\ [][ConcurrentNext]_vars

----------------------------------------------------------------------------
(* The command loop of main(), line by line *)

\* what input() returns in the checks
Lines == {"", "  ", "sair", " SAIR ", "exit", "stats", "Stats", "tools", "hi"}

\* str.strip() and str.lower() on those lines
StripLine(line) == CASE line = "  " -> "" [] line = " SAIR " -> "SAIR" [] OTHER -> line
LowerLine(s) == CASE s = "SAIR" -> "sair" [] s = "Stats" -> "stats" [] OTHER -> s

\* the if-chain of the loop comparing user_input itself, not user_input.lower()
main_dispatch_exact(user_input) ==
  IF user_input = "" THEN "continue"
  ELSE IF user_input \in {"sair", "stats", "tools"} THEN user_input
  ELSE "chat"

\* the if-chain of the loop: which branch takes the line
main_dispatch(user_input) ==
  IF user_input = "" THEN "continue"
  ELSE IF LowerLine(user_input) = "sair" THEN "sair"
  ELSE IF LowerLine(user_input) = "stats" THEN "stats"
  ELSE IF LowerLine(user_input) = "tools" THEN "tools"
  ELSE "chat"

\* one pass of the while loop of main(): forwarded lists the messages given to
\* manager.chat, ticks how often the clock was read
main_iteration(mgr, db, reg, line, run, f, t) ==
  LET user_input == StripLine(line)
      handler == main_dispatch(user_input)
      Stays(shown) ==
        [handler |-> handler, forwarded |-> <<>>, context |-> mgr.context, db |-> db,
         state |-> "Ready", save |-> NoCall, shown |-> shown, ticks |-> 0,
         chat |-> None]
  IN CASE handler = "continue" -> Stays(None)
       [] handler = "sair" ->
            LET s == manager_save_context(mgr, db, f.save, t + 1)
            IN [handler |-> handler, forwarded |-> <<>>, context |-> s.context,
                db |-> s.db, state |-> IF s.raised THEN "Ready" ELSE "Closed",
                save |-> Called(s), shown |-> get_stats(mgr, reg), ticks |-> 1,
                chat |-> None]
       [] handler = "stats" -> Stays(get_stats(mgr, reg))
       [] handler = "tools" -> Stays(list_tools(reg))
       [] OTHER ->
            LET c == chat(mgr, db, user_input, run, f, t)
            IN [handler |-> handler, forwarded |-> <<user_input>>, context |-> c.context,
                db |-> c.db, state |-> "Ready", save |-> c.save, shown |-> c.returned,
                ticks |-> 4, chat |-> c]

LoopIteration(p, budget) ==
  /\ session[p].state = "Ready"
  /\ \E line \in Lines, run \in AgentRuns(now + 2),
        fu \in BOOLEAN, fb \in BOOLEAN, fs \in BOOLEAN :
       LET f == [user |-> fu, bot |-> fb, save |-> fs]
           u == session[p].user_id
           handler == main_dispatch(StripLine(line))
       IN /\ handler # "chat" => (run = [writes |-> <<>>, raises |-> FALSE] /\ ~fu /\ ~fb)
          /\ handler \in {"continue", "stats", "tools"} => ~fs
          /\ handler = "chat" => (turns < MaxTurns /\ (run.raises => ~fb /\ ~fs))
          /\ faults + Count(f) <= budget
          /\ \E r \in {main_iteration(session[p], store, registry, line, run, f, now)} :
             /\ faults' = faults + Count(f)
             /\ turns' = turns + Len(r.forwarded)
             /\ SetStore(r.db)
             /\ now' = now + r.ticks
             /\ session' = [session EXCEPT ![p].context = r.context,
                                           ![p].state = r.state]
             /\ appended' = [appended EXCEPT ![u] =
                  IF r.chat = None THEN @
                  ELSE @ \o (IF r.chat.user_msg.committed
                             THEN <<Entry("user", r.forwarded[1])>> ELSE <<>>)
                         \o (IF r.chat.bot_msg.committed
                             THEN <<Entry("bot", Reply(r.forwarded[1]))>> ELSE <<>>)]
             /\ saved' = IF r.save.committed
                         THEN [saved EXCEPT ![u] =
                                 IF r.chat = None THEN session[p].context
                                 ELSE r.chat.save_before]
                         ELSE saved
             /\ dirty' = IF r.chat = None THEN dirty
                         ELSE [dirty EXCEPT ![p] =
                           [keys |-> IF run.raises
                                     THEN @.keys \cup Changed(session[p].context, run.writes)
                                     ELSE @.keys \ {run.writes[i].key : i \in DOMAIN run.writes},
                            failed |-> r.chat.returned = Fallback]]
             /\ last' = [op |-> "input", proc |-> p, user_id |-> u, line |-> line,
                         handler |-> r.handler, forwarded |-> r.forwarded, f |-> f,
                         raised |-> FALSE, save |-> r.save, shown |-> r.shown,
                         before |-> store, context_before |-> session[p].context]

CliNext ==
  \/ StartWithin("p1", MaxFaults) /\ UNCHANGED registry_vars
  \/ LoopIteration("p1", MaxFaults) /\ UNCHANGED registry_vars

SpecCli == Init /\ [][CliNext]_vars

----------------------------------------------------------------------------
(* The tools, called by the agent during a run with the session's context *)

\* a Ready session with a new context; `last` keeps, besides the latest call, the
\* expressions calculate was given that were permitted and evaluated
InitTools ==
  /\ InitStore
  /\ InitRegistry
  /\ now = 3
  /\ faults = 0
  /\ turns = 0
  /\ appended = [u \in Users |-> <<>>]
  /\ saved = [u \in Users |-> None]
  /\ dirty = [p \in Procs |-> [keys |-> {}, failed |-> FALSE]]
  /\ session = [p \in Procs |->
                  IF p = "p1"
                  THEN [state |-> "Ready", user_id |-> "u1",
                        context |-> ConversationContext("u1", 0), chat_history |-> <<>>]
                  ELSE NoSession]
  /\ last = [op |-> "init", evaluated |-> <<>>]

deps == session["p1"].context

SetDeps(ctx) == session' = [session EXCEPT !["p1"].context = ctx]

\* what the agent passes as expression
Expressions ==
  {<<"2","+","2">>, <<"2"," ","^","3">>, <<"P","I">>, <<"1","/","0">>, <<"2",";">>}

Calculate ==
  /\ turns < MaxToolCalls
  /\ \E expression \in Expressions :
       \E r \in {calculator_calculate(deps, expression, now)} :
         LET replaced == CalcExpression(expression)
             evaluated == CalcPermitted(replaced) /\ ~Eval(replaced).raised
         IN /\ SetDeps(r.ctx)
            /\ last' = [op |-> "calculate", expression |-> expression,
                        raised |-> r.raised,
                        result |-> IF r.raised THEN None ELSE r.result,
                        before |-> deps, was_evaluated |-> evaluated,
                        evaluated |-> IF evaluated
                                      THEN Append(last.evaluated,
                                                  [expression |-> replaced,
                                                   value |-> Eval(replaced).value])
                                      ELSE last.evaluated]
  /\ turns' = turns + 1
  /\ now' = now + 1
  /\ UNCHANGED <<faults, appended, saved, dirty>>

Units == {"km", " KM ", "quilometros", "milhas", "xyz"}

ConvertUnits ==
  /\ turns < MaxToolCalls
  /\ \E value \in {1, 3}, from_unit \in Units, to_unit \in {"milhas", "km"} :
       \E r \in {unit_converter_convert_units(deps, value, from_unit, to_unit, 4, now)} :
         /\ SetDeps(r.ctx)
         /\ last' = [op |-> "convert_units", value |-> value, from_unit |-> from_unit,
                     to_unit |-> to_unit, raised |-> r.raised,
                     result |-> IF r.raised THEN None ELSE r.result,
                     before |-> deps, evaluated |-> last.evaluated]
  /\ turns' = turns + 1
  /\ now' = now + 1
  /\ UNCHANGED <<faults, appended, saved, dirty>>

ToolsNext ==
  \/ Calculate /\ UNCHANGED <<store_vars, registry_vars>>
  \/ ConvertUnits /\ UNCHANGED <<store_vars, registry_vars>>

SpecTools == InitTools /\ [][ToolsNext]_vars

\* what the agent passes to manage_task: task, priority, due_date of an add
AddArgs ==
  {<<"", "medium", "">>, <<"a", "high", "">>, <<"b", "urgent", "2026-12-31">>,
   <<"c", "low", "31/12/2026">>}
TaskIds == {0, 1, 2}

ManageTaskCalls ==
  {[action |-> "add", task |-> a[1], task_id |-> 0, priority |-> a[2],
    due_date |-> a[3]] : a \in AddArgs}
  \cup {[action |-> action, task |-> "", task_id |-> id, priority |-> "medium",
          due_date |-> ""] : action \in {"complete", "remove"}, id \in TaskIds}
  \cup {[action |-> "search", task |-> task, task_id |-> 0, priority |-> "medium",
          due_date |-> ""] : task \in {"", "a"}}
  \cup {[action |-> action, task |-> "", task_id |-> 0, priority |-> "medium",
          due_date |-> ""] : action \in {"list", "stats", "delete"}}

ManageTask ==
  /\ turns < MaxTaskCalls
  /\ \E c \in ManageTaskCalls :
       \E r \in {task_manager_manage_task(deps, c.action, c.task, c.task_id,
                                          c.priority, c.due_date, now)} :
         /\ SetDeps(r.ctx)
         /\ last' = [op |-> "manage_task", call |-> c, raised |-> r.raised,
                     result |-> IF r.raised THEN None ELSE r.result,
                     before |-> deps,
                     freed |-> (IF "freed" \in DOMAIN last THEN last.freed ELSE {})
                               \cup (IF ~r.raised /\ r.result.marker = "removed"
                                     THEN {c.task_id} ELSE {}),
                     evaluated |-> <<>>]
  /\ turns' = turns + 1
  /\ now' = now + 1
  /\ UNCHANGED <<faults, appended, saved, dirty>>

TasksNext == ManageTask /\ UNCHANGED <<store_vars, registry_vars>>

SpecTasks == InitTools /\ [][TasksNext]_vars

----------------------------------------------------------------------------
(* What the properties speak of *)

\* the stored transcript of a user: its rows in the order of their timestamps
RECURSIVE Ascending(_)
Ascending(rows) ==
  IF rows = {} THEN <<>>
  ELSE LET first == CHOOSE r \in rows : \A q \in rows : r.timestamp <= q.timestamp
       IN <<Entry(first.sender, first.message_text)>> \o Ascending(rows \ {first})

StoredTranscript(user_id) == Ascending(HistoryRows(store, user_id))

LastN(seq, n) == SubSeq(seq, (IF n < Len(seq) THEN Len(seq) - n ELSE 0) + 1, Len(seq))

RECURSIVE JsonRepresentable(_)
JsonRepresentable(v) ==
  CASE v.ty \in {"str", "int", "bool"} -> TRUE
    [] v.ty = "dict" -> \A k \in DOMAIN v.d : JsonRepresentable(v.d[k])
    [] OTHER -> FALSE

IsDefaultContext(ctx, user_id) ==
  /\ ctx.user_id = user_id
  /\ ctx.user_preferences = DefaultPreferences
  /\ ctx.session_data.message_count = 0
  /\ ctx.custom_data = EmptyDict

NoFault(f) == \A k \in DOMAIN f : ~f[k]

\* the steps of a turn, in the order the specification gives them
TurnOrder == <<"update_activity", "save_user_message", "agent_run", "save_bot_message",
               "save_context">>

----------------------------------------------------------------------------
(* Properties of the sessions, checked under Spec *)

\* C1: once save_context(u, ctx) has committed and no later save for u has, a
\* load_context(u) that reaches the store returns a context equal to ctx in user_id,
\* preferences, session data and extension data, for every ctx whose extension data
\* is JSON-representable.
C1_RoundTrip ==
  \A u \in Users :
    (saved[u] # None /\ JsonRepresentable(PyDict(saved[u].custom_data))) =>
      \E r \in {load_context(store, u, FALSE, now)} :
        /\ ~r.raised
        /\ r.found
        /\ r.context.user_id = saved[u].user_id
        /\ r.context.user_preferences = saved[u].user_preferences
        /\ r.context.session_data = saved[u].session_data
        /\ r.context.custom_data = saved[u].custom_data

\* a later process run has loaded what an earlier session saved: turns counted,
\* an extension value held
C1_Witness ==
  /\ last.op = "start"
  /\ last.found
  /\ saved[last.user_id] # None
  /\ last.context = saved[last.user_id]
  /\ last.context.session_data.message_count > 0
  /\ "user_name" \in DOMAIN last.context.custom_data

\* C2: after every chat call whose agent run returned and whose gateway calls all
\* reached the store, the user's stored transcript ends with that turn's user
\* message followed by that turn's bot response.
C2_EveryTurnRecorded ==
  (last.op = "chat" /\ ~last.run.raises /\ NoFault(last.f)) =>
    \E tr \in {StoredTranscript(last.user_id)} :
      /\ Len(tr) >= 2
      /\ tr[Len(tr) - 1] = Entry("user", last.message)
      /\ tr[Len(tr)] = Entry("bot", last.returned)

\* C3: load_chat_history(user_id, limit) returns the last min(limit, n) of the n
\* entries appended for that user, oldest first, and nothing of another user.
C3_HistoryChronology ==
  /\ \A u \in Users : \A limit \in 0..MaxLimit :
       \E r \in {load_chat_history(store, u, limit, FALSE)} :
         ~r.raised /\ r.history = LastN(appended[u], limit)
  /\ (last.op = "start" /\ ~last.raised /\ ~last.f.history) =>
       session[last.proc].chat_history = LastN(appended[last.user_id], HistoryLimit)

\* a user has more entries than the limit, and the window is cut
C3_Witness ==
  \E u \in Users : \E limit \in 2..MaxLimit :
    /\ Len(appended[u]) > limit
    /\ load_chat_history(store, u, limit, FALSE).history = LastN(appended[u], limit)
    /\ appended[u][Len(appended[u])] # appended[u][Len(appended[u]) - 1]

\* C4: when the agent run raises, chat does not raise and returns the fallback
\* string, the session stays Ready, and a following chat call whose agent run
\* returns gives that run's response.
C4_GracefulTurnFailure ==
  last.op = "chat" =>
    /\ ~last.raised
    /\ last.run.raises =>
         last.returned = Fallback /\ session[last.proc].state = "Ready"
    /\ (last.after_failure /\ ~last.run.raises) => last.returned = Reply(last.message)

C4_Witness ==
  /\ last.op = "chat"
  /\ last.after_failure
  /\ ~last.run.raises
  /\ last.returned = Reply(last.message)

\* C5: after a chat call whose agent run raised, with the store reachable, the
\* persisted record of the user carries the message_count incremented for that turn.
C5_FailedTurnStillSaved ==
  (last.op = "chat" /\ last.run.raises /\ NoFault(last.f)) =>
    \E r \in {load_context(store, last.user_id, FALSE, now)} :
      /\ r.found
      /\ r.context.session_data.message_count =
           session[last.proc].context.session_data.message_count

\* C6: an extension write made by a tool during a turn whose agent run then raised
\* is never written to the store.
C6_NoPartialPersist ==
  last.op \in {"chat", "exit", "interrupt"} =>
    \A k \in dirty[last.proc].keys :
      \E r \in {load_context(store, last.user_id, FALSE, now)} :
        ~(/\ r.found
          /\ k \in DOMAIN r.context.custom_data
          /\ r.context.custom_data[k] = session[last.proc].context.custom_data[k])

\* C9: load_context never raises and writes nothing; with no record for user_id, or
\* with the store unreachable, it returns a default context carrying user_id.
C9_LoadFallsBack ==
  /\ \A u \in Users : \A fault \in BOOLEAN :
       \E r \in {load_context(store, u, fault, now)} :
         /\ ~r.raised
         /\ r.db = store
         /\ (fault \/ ContextRows(store, u) = {}) => IsDefaultContext(r.context, u)
  /\ (last.op = "start" /\ last.key_set) =>
       /\ ~last.raised
       /\ store = last.before
       /\ (last.f.context \/ ContextRows(last.before, last.user_id) = {}) =>
            IsDefaultContext(session[last.proc].context, last.user_id)

\* the store holds a record with turns counted, is unreachable, and the session
\* starts from a default context
C9_Witness ==
  /\ last.op = "start"
  /\ last.f.context
  /\ saved[last.user_id] # None
  /\ saved[last.user_id].session_data.message_count > 0
  /\ session[last.proc].state = "Ready"
  /\ IsDefaultContext(session[last.proc].context, last.user_id)

C11_UpsertSemantics ==
  /\ \A u \in Users : Cardinality(ContextRows(store, u)) <= 1
  /\ (last.op \in {"chat", "exit", "interrupt"} /\ last.save.committed) =>
       \E row \in ContextRows(store, last.user_id) :
         /\ row.user_preferences =
              Json(json_dumps(DumpPreferences(last.save_before.user_preferences)).value)
         /\ row.session_data =
              Json(json_dumps(DumpSessionData(last.save_before.session_data)).value)
         /\ row.custom_data = Json(json_dumps(PyDict(last.save_before.custom_data)).value)
         /\ \A old \in ContextRows(last.before, last.user_id) :
              old.last_updated <= row.last_updated

\* a record that held user_name is overwritten by a context that holds none
C11_Witness ==
  /\ last.op \in {"chat", "exit", "interrupt"}
  /\ last.save.committed
  /\ \E old \in ContextRows(last.before, last.user_id) :
       /\ "user_name" \in DOMAIN Column(old.custom_data).value.d
       /\ \E row \in ContextRows(store, last.user_id) :
            /\ "user_name" \notin DOMAIN Column(row.custom_data).value.d
            /\ old.last_updated < row.last_updated

\* C15: last_activity >= start_time in every context a session holds (freshly
\* constructed, loaded, after turns and saves) and in every context that a load
\* from the store would return.
C15_ActivityAfterStart ==
  /\ \A p \in Procs :
       session[p].context # None =>
         session[p].context.session_data.last_activity
           >= session[p].context.session_data.start_time
  /\ \A u \in Users : \A fault \in BOOLEAN :
       \E r \in {load_context(store, u, fault, now)} :
         r.context.session_data.last_activity >= r.context.session_data.start_time

\* a later process run holds a reloaded context after a further turn
C15_Witness ==
  /\ last.op = "chat"
  /\ last.proc = "p2"
  /\ session["p1"].state = "Closed"
  /\ session["p2"].context.session_data.session_id
       = session["p1"].context.session_data.session_id
  /\ session["p2"].context.session_data.message_count >= 2
  /\ session["p2"].context.session_data.last_activity
       > session["p1"].context.session_data.last_activity
  /\ session["p2"].context.session_data.start_time
       = session["p1"].context.session_data.start_time

\* C17: two sessions constructed in different process runs never hold the same
\* session_id, also when the later one loads the context the earlier one saved.
C17_SessionIdPerRun ==
  \A p, q \in Procs :
    (p # q /\ session[p].context # None /\ session[q].context # None) =>
      session[p].context.session_data.session_id
        # session[q].context.session_data.session_id

\* C19: when the credential is missing the constructor raises at validate_config,
\* before the context or the history is loaded; the session is Failed, not Ready, and
\* holds no context; the store is left as it was; and a Failed session does nothing
\* further: no turn, no save.
C19_ConfigFatalAtStartup ==
  [][/\ (last'.op = "start" /\ ~last'.key_set) =>
          /\ last'.raised
          /\ last'.steps = <<"validate_config">>
          /\ session'[last'.proc].state = "Failed"
          /\ session'[last'.proc].context = None
          /\ user_contexts' = user_contexts
          /\ chat_history' = chat_history
          /\ turns' = turns
     /\ \A p \in Procs :
          session[p].state = "Failed" => (session'[p] = session[p] /\ last'.proc # p)]_vars

\* a process run fails at startup for a user whose record and transcript are in
\* the store
C19_Witness ==
  /\ last.op = "start"
  /\ ~last.key_set
  /\ session[last.proc].state = "Failed"
  /\ ContextRows(store, last.user_id) # {}
  /\ HistoryRows(store, last.user_id) # {}

----------------------------------------------------------------------------
(* Properties of one process run under outages, checked under SpecOutage *)

C13_MessageCountPerTurn ==
  [][\A p \in Procs :
       session[p].state = "Ready" =>
         session'[p].context.session_data.message_count =
           session[p].context.session_data.message_count
             + (IF turns' = turns + 1 THEN 1 ELSE 0)]_vars

\* the second turn of a session is counted although its agent run raised and the
\* first turn's save had failed
C13_Witness ==
  /\ last.op = "chat"
  /\ last.run.raises
  /\ faults > 0
  /\ last.context_before.session_data.message_count = 1
  /\ session[last.proc].context.session_data.message_count = 2

\* C16: the steps of a turn are an initial part of update_activity, append user
\* message, agent run, append bot message, save_context (so each runs at most once
\* and in that order), all five when the agent run returns; the agent run is given
\* the message_count already incremented; and what the steps leave in the store
\* carries their order: the user row before the bot row before the record's
\* last_updated, all after last_activity.
C16_TurnStepOrder ==
  last.op = "chat" =>
    /\ \E n \in 1..Len(TurnOrder) : last.steps = SubSeq(TurnOrder, 1, n)
    /\ ~last.run.raises => last.steps = TurnOrder
    /\ last.run.raises => last.steps = SubSeq(TurnOrder, 1, 3)
    /\ last.observed = last.context_before.session_data.message_count + 1
    /\ \E new \in {chat_history \ last.before.chat_history} :
         /\ \A r1, r2 \in new :
              (r1.sender = "user" /\ r2.sender = "bot") => r1.timestamp < r2.timestamp
         /\ \A r \in new :
              /\ session[last.proc].context.session_data.last_activity < r.timestamp
              /\ last.save.committed =>
                   \A row \in ContextRows(store, last.user_id) :
                     r.timestamp < row.last_updated

\* a turn whose five steps all ran and committed, the agent run seeing the count 2
C16_Witness ==
  /\ last.op = "chat"
  /\ last.steps = TurnOrder
  /\ last.user_msg.committed /\ last.bot_msg.committed /\ last.save.committed
  /\ last.observed = 2
  /\ Cardinality(chat_history \ last.before.chat_history) = 2

\* C18: the exit command and the interrupt at the prompt each make one save_context
\* attempt of the context in memory and leave the session Closed, whether that save
\* commits or fails; a process run ends only so; once a session is Closed nothing
\* more is done in it.
C18_ShutdownCloses ==
  /\ last.op \in {"exit", "interrupt"} =>
       /\ session[last.proc].state = "Closed"
       /\ ~last.raised
       /\ last.save.attempted
       /\ last.save_before = session[last.proc].context
       /\ last.save.committed => saved[last.user_id] = session[last.proc].context
       /\ ~last.save.committed =>
            ContextRows(store, last.user_id) = ContextRows(last.before, last.user_id)
  /\ \A p \in Procs :
       session[p].state \in {"Closed", "Aborted"} =>
         /\ last.op \in {"exit", "interrupt"}
         /\ last.proc = p
         /\ session[p].state = "Closed"

\* C29: every turn that has started ends by returning a response (the reply or
\* the apology) with the session back in Ready, whatever the agent run and the
\* gateway calls do, return or raise; none of their outcomes ends the turn
\* without a response or takes the session out of Ready.
C29_TurnReturnsToReady ==
  /\ last.op = "chat" =>
       /\ session[last.proc].state = "Ready"
       /\ ~last.raised
       /\ last.returned \in {Reply(last.message), Fallback}
  /\ last.op = "chat_cancelled" =>
       /\ session[last.proc].state = "Ready"
       /\ ~last.raised

----------------------------------------------------------------------------
(* Properties of update_activity, checked under SpecActivity *)

\* C14: after N calls of update_activity message_count is its first value plus N,
\* last_activity has not moved backwards, and nothing else in the context (user_id,
\* preferences, session_id, start_time, extension data) has changed.
C14_ActivityMonotonic ==
  \E ctx \in {session["p1"].context} :
    /\ ctx.session_data.message_count = last.first.session_data.message_count + turns
    /\ ctx.session_data.last_activity >= last.before.session_data.last_activity
    /\ ctx.session_data.last_activity >= last.first.session_data.last_activity
    /\ [ctx EXCEPT !.session_data.message_count = last.first.session_data.message_count,
                   !.session_data.last_activity = last.first.session_data.last_activity]
         = last.first

\* three calls on a loaded context that holds extension data
C14_Witness ==
  /\ last.op = "update_activity"
  /\ turns >= 3
  /\ last.first.session_data.message_count > 0
  /\ last.first.custom_data # EmptyDict
  /\ session["p1"].context.session_data.message_count =
       last.first.session_data.message_count + 3
  /\ session["p1"].context.session_data.last_activity >
       last.before.session_data.last_activity

----------------------------------------------------------------------------
(* Properties of the registry, checked under SpecRegistry *)

LastCall(name) ==
  registered[CHOOSE i \in DOMAIN registered :
               /\ registered[i].name = name
               /\ \A j \in DOMAIN registered : registered[j].name = name => j <= i]

\* the names of the marked functions of the modules of a directory that load
MarkedNames(directory) ==
  UNION {{file.members[j].name :
            j \in {x \in DOMAIN file.members :
                     file.members[x].is_function /\ file.members[x].marked}} :
         file \in {directory.files[i] :
                     i \in {x \in DOMAIN directory.files :
                              /\ ~directory.files[x].dunder
                              /\ directory.files[x].load = "ok"}}}

\* C7: discover over a directory holding well-formed modules and one that fails to
\* load (import error or unparsable source) does not raise, returns exactly the
\* names of the marked functions of the well-formed modules and registers exactly
\* those, in whatever order the modules are visited.
C7_DiscoveryIsolation ==
  reg_last.op = "discover" =>
    /\ ~reg_last.raised
    /\ {reg_last.discovered[i] : i \in DOMAIN reg_last.discovered}
         = MarkedNames(reg_last.directory)
    /\ Keys(tools) = Keys(reg_last.before.tools) \cup MarkedNames(reg_last.directory)

\* C8: list() has one entry per distinct registered name, register never fails, and
\* the handle and the metadata held for a name are those of the last register call
\* made with that name (no metadata, or empty metadata, being held as {}).
C8_RegistryUniqueness ==
  \E l \in {list_tools(registry)} :
    /\ reg_last.op = "register" => ~reg_last.raised
    /\ Keys(l) = {registered[i].name : i \in DOMAIN registered}
    /\ Len(l) = Cardinality(Keys(l))
    /\ \A name \in Keys(l) :
         /\ Lookup(tools, name) = LastCall(name).func
         /\ Lookup(l, name).function = LastCall(name).func.name
         /\ Lookup(l, name).metadata =
              IF Falsy(LastCall(name).metadata) THEN PyDict(EmptyDict)
              ELSE LastCall(name).metadata

\* one name registered twice, with another handle and other metadata the second time
C8_Witness ==
  /\ reg_last.op = "register"
  /\ Len(registered) >= 2
  /\ registered[1].name = registered[2].name
  /\ registered[1].func # registered[2].func
  /\ registered[1].metadata # registered[2].metadata
  /\ Lookup(list_tools(registry), registered[2].name).metadata = registered[2].metadata

----------------------------------------------------------------------------
(* Properties of the listing, checked under SpecListing *)

\* C20: list() leaves the registry as it was and its entries hold no handle; and
\* after the caller has changed the mapping it was given, the metadata nested in an
\* entry included, the registry is as it was and a later list() gives what the
\* first gave.
C20_ListIsSnapshot ==
  /\ reg_last.op = "list" =>
       /\ registry = reg_last.before
       /\ \A name \in Keys(reg_last.result) :
            /\ DOMAIN Lookup(reg_last.result, name) = {"function", "doc", "metadata"}
            /\ Lookup(reg_last.result, name).function = Lookup(tools, name).name
  /\ reg_last.op = "tamper" =>
       /\ registry = reg_last.before
       /\ list_tools(registry) = reg_last.listed


\* s is an initial part of t
IsPrefix(s, t) == Len(s) <= Len(t) /\ SubSeq(t, 1, Len(s)) = s

\* C23: the transcript is append-only: no step of the program (construction and
\* its loads, a turn, save_context, shutdown) removes or changes a stored
\* chat_history row, and each user's transcript in timestamp order keeps the
\* earlier transcript as its initial part.
C23_TranscriptAppendOnly ==
  [][/\ chat_history \subseteq chat_history'
     /\ \A u \in Users :
          IsPrefix(Ascending({r \in chat_history : r.user_id = u}),
                   Ascending({r \in chat_history' : r.user_id = u}))]_vars

\* the second process run of a user saves its context at shutdown while the
\* user's transcript holds rows
C23_Witness ==
  /\ last.op = "exit"
  /\ last.proc = "p2"
  /\ last.save.committed
  /\ HistoryRows(last.before, last.user_id) # {}
  /\ HistoryRows(store, last.user_id) = HistoryRows(last.before, last.user_id)

\* C24: when load_context fell back to a default context because the store
\* failed, while a record of the user is persisted, the step of that session that
\* follows (a turn with its save_context, or the shutdown save) leaves that
\* record as it was.
C24_FallbackKeepsRecord ==
  [][(/\ last.op = "start"
      /\ ~last.raised
      /\ last.f.context
      /\ ContextRows(store, last.user_id) # {})
     => {r \in user_contexts' : r.user_id = last.user_id}
          = ContextRows(store, last.user_id)]_vars

----------------------------------------------------------------------------
(* Claims about concurrent sessions, checked under SpecConcurrent *)

\* C26: sessions of different user_ids are isolated: whatever the interleaving,
\* a step of one session (a statement of its turn, its save, its shutdown, its
\* construction) changes neither the persisted record, nor the stored
\* transcript, nor the in-memory context of the other.
C26_SessionIsolation ==
  [][\A q \in Procs :
       (last'.proc # q /\ UserOf[q] # UserOf[last'.proc]) =>
         /\ session'[q] = session[q]
         /\ {r \in user_contexts' : r.user_id = UserOf[q]}
              = {r \in user_contexts : r.user_id = UserOf[q]}
         /\ {r \in chat_history' : r.user_id = UserOf[q]}
              = {r \in chat_history : r.user_id = UserOf[q]}]_vars

\* one session commits its save_context while the other is in the middle of a
\* turn, both users having stored messages
C26_Witness ==
  /\ last.op = "save_context"
  /\ last.committed
  /\ \E q \in Procs \ {last.proc} : session[q].state = "AgentRun"
  /\ \A u \in Users : HistoryRows(store, u) # {}

----------------------------------------------------------------------------
(* Claims about the command loop, checked under SpecCli *)

\* the reserved commands as the loop knows them
LoopCommands == {"sair", "stats", "tools"}

\* the loop pass left message_count and the transcript as they were
NothingForwarded ==
  /\ last.forwarded = <<>>
  /\ session[last.proc].context.session_data.message_count
       = last.context_before.session_data.message_count
  /\ chat_history = last.before.chat_history

\* the loop pass gave message to chat exactly once
ForwardedOnce(message) ==
  /\ last.forwarded = <<message>>
  /\ session[last.proc].context.session_data.message_count
       = last.context_before.session_data.message_count + 1

----------------------------------------------------------------------------
(* Claims about the agents and the registry, checked under SpecBoot *)

\* the bindings of an Agent made for the registry key name
BoundFor(agent, name) ==
  {i \in DOMAIN agent : agent[i].origin = "registry" /\ agent[i].name = name}

C25_RegistrationOnceAtBoot ==
  (reg_last.op = "build" /\ reg_last.ready_before # {}) => reg_last.calls = <<>>


----------------------------------------------------------------------------
(* Claims about the tools, checked under SpecTools and SpecTasks *)

\* C22: a tool handle, whatever its arguments and the context, returns a string
\* and never raises; a call of calculate whose expression is rejected or fails to
\* evaluate returns a string that starts with the failure marker.
C22_ToolsNeverRaise ==
  last.op \in {"calculate", "convert_units"} =>
    /\ ~last.raised
    /\ last.result.ty = "str"
    /\ (last.op = "calculate" /\ ~last.was_evaluated)
         => last.result.marker = FailureMarker

\* C27: after any sequence of calculate calls calc_history holds, oldest first,
\* the entries of the last min(10, k) expressions that were permitted and
\* evaluated, k being their number; a call whose expression is rejected or fails
\* to evaluate leaves the context as it was.
C27_CalcHistoryCap ==
  last.op = "calculate" =>
    LET history == get_user_data(deps, "calc_history", PyList(<<>>)).l
        kept == LastItems(last.evaluated, CalcHistoryCap)
    IN /\ Len(history) = Len(kept)
       /\ \A i \in DOMAIN kept :
            /\ history[i].d.expression = PyStr(kept[i].expression)
            /\ history[i].d.result = kept[i].value
       /\ ~last.was_evaluated => deps = last.before


\* the task structure a context holds, or the one manage_task starts from
TasksOf(ctx) == get_user_data(ctx, "tasks", NoTasks).d

\* C30: after any sequence of manage_task actions all tasks of the list have
\* pairwise distinct ids, every id is smaller than next_id, next_id has not
\* decreased, no task carries an id that a remove freed, and a call that returned
\* an error string left tasks, next_id and completed_count as they were.
C30_TaskIdsNeverReused ==
  last.op = "manage_task" =>
    LET data == TasksOf(deps)
        tasks == data.tasks.l
    IN /\ ~last.raised
       /\ \A i, j \in DOMAIN tasks : tasks[i].d.id.n = tasks[j].d.id.n => i = j
       /\ \A i \in DOMAIN tasks : tasks[i].d.id.n < data.next_id.n
       /\ TasksOf(last.before).next_id.n <= data.next_id.n
       /\ \A i \in DOMAIN tasks : tasks[i].d.id.n \notin last.freed
       /\ last.result.marker = FailureMarker => data = TasksOf(last.before)

\* an add after a remove, with two tasks held: the new task has a new id
C30_Witness ==
  /\ last.op = "manage_task"
  /\ last.call.action = "add"
  /\ last.result.marker = "added"
  /\ last.freed # {}
  /\ Len(TasksOf(deps).tasks.l) >= 2


====
